---- MODULE Spec2Model ----
(***************************************************************************)
(* Verification model of the adventofcode21 workspace:                     *)
(*   - helpers::Grid<T> and its row/column iterators (helpers/src/lib.rs)  *)
(*   - day6 GameOfLanternfish, the bucketed population counter             *)
(*   - day14 NaivePairInserter and StatefulPairInserter                    *)
(*   - day9 SmokeBasin: low points and the breadth-first basin size        *)
(*   - day11 Octopusses: step, flash and the synchronized flash            *)
(*   - day3 Report: gamma and epsilon rate                                 *)
(*   - day4 BingoGame: play and play_to_end                                *)
(*   - day10 parse_line                                                    *)
(* Specifications: SpecGrid (construction and mutation of a grid),         *)
(* SpecGridView (accessors and iterators of a grid), SpecFish (day6),      *)
(* SpecPoly (day14), SpecBasin (day9), SpecBasinFair (day9, the basin      *)
(* traversal with the scheduling of a running loop), SpecOcto (day11, a    *)
(* scan of the cavern as one step), SpecFlash (day11, one cell at a time), *)
(* SpecFlashFair (SpecFlash with the scheduling of a running loop),        *)
(* SpecReport (day3), SpecBingo (day4) and SpecNav (day10).                *)
(* The variables of the other components stay at their idle value.         *)
(***************************************************************************)
EXTENDS Integers, Sequences, FiniteSets, TLC

VARIABLES
    gpc,      \* grid program: "none" (no grid yet), "live", "failed" (the
              \* constructor returned an error), "aborted" (panicked)
    grid,     \* Grid { num_columns, data }
    last,     \* the last Grid call: operation, arguments, returned value, grid before
    iter,     \* the live GridRowIterator / GridColumnIterator and what next() returned
    fpc,      \* lanternfish program: "start", "live", "aborted"
    numbers,  \* the argument of GameOfLanternfish::from_numbers
    game,     \* GameOfLanternfish
    days,     \* number of advance_one_day calls so far
    counted,  \* the value returned by the last count() call
    ppc,      \* polymer program: "start", "live", "empty" (new gave None), "aborted"
    rules,    \* InsertionRules: a map from the pairs that have a rule to a symbol
    template, \* the polymer template
    ins,      \* StatefulPairInserter { state, first } (rules are in `rules`)
    ksteps,   \* number of successful StatefulPairInserter::step calls
    pret,     \* the last StatefulPairInserter call and what it returned
    naive,    \* the string the naive mode has reached (`next` of main)
    nsteps,   \* number of successful NaivePairInserter::pair_insert calls
    nret,     \* the last NaivePairInserter call and what it returned
    bpc,      \* basin program: "live", "bfs" (inside the while loop of
              \* get_basin_size), "aborted"
    basin,    \* SmokeBasin { data }: the heightmap grid
    bret,     \* the last SmokeBasin call: operation, point, returned value
    queue,    \* get_basin_size: the VecDeque of points to expand
    visited,  \* get_basin_size: the HashSet of visited points
    pushed,   \* every point put on the queue by the running get_basin_size, in order
    opc,      \* octopus program: "live", "scan" (at the head of the while
              \* loop of step), "cells" (inside its for loops), "sync" (at the
              \* head of the loop of step_until_synchronized_flash)
    cavern,   \* the grid Octopusses::from_str built
    octo,     \* Octopusses { state }: the energy levels now
    flashes,  \* step: the local flash counter
    scan_at,  \* step: the row-major position of the for loops
    oret,     \* the last Octopusses call and what it returned
    osteps,   \* number of step() calls that returned
    flash_sum, \* sum of the values the step() calls returned
    sync,     \* step_until_synchronized_flash: running or not, and its locals
    rpc,      \* report program: "start", "live", "failed" (from_bits returned an error)
    bits,     \* the slice of ReportBits handed to Report::from_bits
    report,   \* Report { size, data }
    rret,     \* the last Report call and what it returned
    kpc,      \* bingo program: "start", "live", "failed" (a board did not parse),
              \* "loop" (inside the while loop of play_to_end)
    called,   \* the numbers drawn, as parsed from the first block of the input
    blocks,   \* the numbers of each board block of the input
    boards,   \* BingoGame.boards: Vec<Option<BingoBoard>>
    offset,   \* where the slice `numbers` of play / play_to_end starts within called
    last_winner, \* play_to_end: the local last_winner
    winners,  \* history: every Winner a play call has returned, in order
    kret,     \* the last BingoGame call and what it returned
    lpc,      \* syntax checker program: "start", "parsed"
    line,     \* the line given to parse_line, as its sequence of characters
    lret      \* the Line that parse_line returned

gridVars == <<gpc, grid, last, iter>>
fishVars == <<fpc, numbers, game, days, counted>>
polyVars == <<ppc, rules, template, ins, ksteps, pret, naive, nsteps, nret>>
basinVars == <<bpc, basin, bret, queue, visited, pushed>>
octoVars == <<opc, cavern, octo, flashes, scan_at, oret, osteps, flash_sum, sync>>
reportVars == <<rpc, bits, report, rret>>
bingoVars == <<kpc, called, blocks, boards, offset, last_winner, winners, kret>>
navVars == <<lpc, line, lret>>
nonGridVars == <<fishVars, polyVars, basinVars, octoVars, reportVars, bingoVars, navVars>>
nonFishVars == <<gridVars, polyVars, basinVars, octoVars, reportVars, bingoVars, navVars>>
nonPolyVars == <<gridVars, fishVars, basinVars, octoVars, reportVars, bingoVars, navVars>>
nonBasinVars == <<gridVars, fishVars, polyVars, octoVars, reportVars, bingoVars, navVars>>
nonOctoVars == <<gridVars, fishVars, polyVars, basinVars, reportVars, bingoVars, navVars>>
nonReportVars == <<gridVars, fishVars, polyVars, basinVars, octoVars, bingoVars, navVars>>
nonBingoVars == <<gridVars, fishVars, polyVars, basinVars, octoVars, reportVars, navVars>>
nonNavVars == <<gridVars, fishVars, polyVars, basinVars, octoVars, reportVars, bingoVars>>
vars == <<gpc, grid, last, iter, fpc, numbers, game, days, counted,
          ppc, rules, template, ins, ksteps, pret, naive, nsteps, nret,
          bpc, basin, bret, queue, visited, pushed,
          opc, cavern, octo, flashes, scan_at, oret, osteps, flash_sum, sync,
          rpc, bits, report, rret,
          kpc, called, blocks, boards, offset, last_winner, winners, kret,
          lpc, line, lret>>

----------------------------------------------------------------------------
(* Bounds of the model                                                     *)

MaxCols == 2
MaxRows == 2
MaxNext == 4
MaxFish == 2
MaxTimer == 7
MaxDays == 256
MaxTemplate == 3
MaxSteps == 3
BasinCells == 6
BasinSide == 3
OctoCells == 6
OctoSide == 3
OctoSteps == 2
MaxBits == 2
MaxReports == 3
MaxBoards == 2
MaxCalls == 2
MaxNumber == 2
MaxLine == 4

\* cell values (the element type T)
Values == {0, 1}

\* coordinates handed to the accessors: every valid one and one past the end
Coords == 0 .. MaxCols
Lines  == 0 .. MaxRows

RECURSIVE SeqsUpTo(_, _)
SeqsUpTo(S, n) ==
    IF n = 0 THEN {<<>>}
    ELSE LET shorter == SeqsUpTo(S, n - 1)
         IN  shorter \cup {Append(s, v) : s \in {t \in shorter : Len(t) = n - 1}, v \in S}

\* slices handed to the constructors and to add_row
Slices == SeqsUpTo(Values, MaxCols * MaxRows)
RowSlices == SeqsUpTo(Values, MaxCols + 1)

----------------------------------------------------------------------------
(* Option / Result / panic values                                          *)

None == [tag |-> "None"]
Some(v) == [tag |-> "Some", val |-> v]
Ok(v) == [tag |-> "Ok", val |-> v]
Err == [tag |-> "Err"]
Panic == [tag |-> "Panic"]
UnitVal == "()"

Point(x, y, value) == [x |-> x, y |-> y, value |-> value]

Repeat(v, n) == [i \in 1 .. n |-> v]

----------------------------------------------------------------------------
(* helpers::Grid                                                           *)

MkGrid(c, data) == [num_columns |-> c, data |-> data]

NoGrid == MkGrid(0, <<>>)

\* Vec::get / slice::get on the 0-based index
VecGet(data, i) == IF i < Len(data) THEN Some(data[i + 1]) ELSE None

idx(g, x, y) == g.num_columns * y + x

column_count(g) == g.num_columns

\* data.len() / num_columns: integer division, which panics for num_columns = 0
DivPanics(g) == g.num_columns = 0

row_count(g) == Len(g.data) \div g.num_columns

get_index_only(g, x, y) ==
    LET v == VecGet(g.data, idx(g, x, y))
    IN  IF v = None THEN None ELSE Some(Point(x, y, v.val))

get(g, x, y) ==
    IF x >= column_count(g) \/ y >= row_count(g)
    THEN None
    ELSE LET v == VecGet(g.data, idx(g, x, y))
         IN  IF v = None THEN None ELSE Some(Point(x, y, v.val))

\* set: the pair <<grid after, returned value>>
set_row_major_swapped(g, x, y, value) ==
    LET i == g.num_columns * x + y
    IN  IF i < Len(g.data)
        THEN <<MkGrid(g.num_columns, [g.data EXCEPT ![i + 1] = value]), Some(g.data[i + 1])>>
        ELSE <<g, None>>

set(g, x, y, value) ==
    LET i == idx(g, x, y)
    IN  IF i < Len(g.data)
        THEN <<MkGrid(g.num_columns, [g.data EXCEPT ![i + 1] = value]), Some(g.data[i + 1])>>
        ELSE <<g, None>>

\* add_row: the pair <<grid after, returned value>>
add_row_unchecked(g, values) ==
    <<MkGrid(g.num_columns, g.data \o values), Ok(UnitVal)>>

add_row(g, values) ==
    IF Len(values) # g.num_columns
    THEN <<g, Err>>
    ELSE <<MkGrid(g.num_columns, g.data \o values), Ok(UnitVal)>>

neighbours_diagonal(g, x, y) ==
    LET left  == IF x > 0 THEN get(g, x - 1, y) ELSE None
        up    == IF y > 0 THEN get(g, x, y - 1) ELSE None
        right == get(g, x + 1, y + 1)
        down  == get(g, x, y + 1)
    IN  <<left, up, right, down>>

neighbours(g, x, y) ==
    LET left  == IF x > 0 THEN get(g, x - 1, y) ELSE None
        up    == IF y > 0 THEN get(g, x, y - 1) ELSE None
        right == get(g, x + 1, y)
        down  == get(g, x, y + 1)
    IN  <<left, up, right, down>>

NoIter == [kind |-> "none"]
NoCall == [op |-> "none"]

----------------------------------------------------------------------------
(* Grid operations                                                         *)

\* Grid::new(num_columns)
New(c) ==
    /\ gpc = "none"
    /\ grid' = MkGrid(c, <<>>)
    /\ gpc' = "live"
    /\ last' = [op |-> "new", c |-> c]
    /\ iter' = NoIter
    /\ UNCHANGED nonGridVars

\* Grid::with_default(x, y, default)
WithDefault(x, y, d) ==
    /\ gpc = "none"
    /\ grid' = MkGrid(x, Repeat(d, x * y))
    /\ gpc' = "live"
    /\ last' = [op |-> "with_default", x |-> x, y |-> y, d |-> d]
    /\ iter' = NoIter
    /\ UNCHANGED nonGridVars

\* Grid::from_slice(data, num_columns)
FromSlice(data, c) ==
    /\ gpc = "none"
    /\ IF c = 0
       THEN \* data.len() % 0 panics
            /\ gpc' = "aborted"
            /\ grid' = grid
            /\ last' = [op |-> "from_slice", data |-> data, c |-> c, ret |-> Panic]
       ELSE IF Len(data) % c # 0
       THEN \* Err(GridError): the caller has no grid
            /\ gpc' = "failed"
            /\ grid' = grid
            /\ last' = [op |-> "from_slice", data |-> data, c |-> c, ret |-> Err]
       ELSE /\ gpc' = "live"
            /\ grid' = MkGrid(c, data)
            /\ last' = [op |-> "from_slice", data |-> data, c |-> c, ret |-> Ok(UnitVal)]
    /\ iter' = NoIter
    /\ UNCHANGED nonGridVars

\* Grid::from_first_row(data)
FromFirstRow(data) ==
    /\ gpc = "none"
    /\ grid' = MkGrid(Len(data), data)
    /\ gpc' = "live"
    /\ last' = [op |-> "from_first_row", data |-> data]
    /\ iter' = NoIter
    /\ UNCHANGED nonGridVars

\* grid.add_row(values)
AddRow(values) ==
    /\ gpc = "live"
    /\ iter = NoIter
    /\ Len(grid.data) + Len(values) <= MaxCols * MaxRows
    /\ LET r == add_row(grid, values)
       IN  /\ grid' = r[1]
           /\ last' = [op |-> "add_row", values |-> values, ret |-> r[2], pre |-> grid]
    /\ iter' = NoIter
    /\ UNCHANGED <<gpc, nonGridVars>>

\* grid.set(x, y, value)
Set(x, y, v) ==
    /\ gpc = "live"
    /\ iter = NoIter
    /\ LET r == set(grid, x, y, v)
       IN  /\ grid' = r[1]
           /\ last' = [op |-> "set", x |-> x, y |-> y, v |-> v, ret |-> r[2], pre |-> grid]
    /\ iter' = NoIter
    /\ UNCHANGED <<gpc, nonGridVars>>

\* grid.get(x, y)
Get(x, y) ==
    /\ gpc = "live"
    /\ iter = NoIter
    /\ last' = [op |-> "get", x |-> x, y |-> y, ret |-> get(grid, x, y), pre |-> grid]
    /\ iter' = NoIter
    /\ UNCHANGED <<gpc, grid, nonGridVars>>

\* grid.neighbours(x, y)
Neighbours(x, y) ==
    /\ gpc = "live"
    /\ iter = NoIter
    /\ last' = [op |-> "neighbours", x |-> x, y |-> y,
                ret |-> neighbours(grid, x, y), pre |-> grid]
    /\ iter' = NoIter
    /\ UNCHANGED <<gpc, grid, nonGridVars>>

\* grid.row_count()
RowCount ==
    /\ gpc = "live"
    /\ iter = NoIter
    /\ IF DivPanics(grid)
       THEN /\ gpc' = "aborted"
            /\ last' = [op |-> "row_count", ret |-> Panic, pre |-> grid]
       ELSE /\ gpc' = gpc
            /\ last' = [op |-> "row_count", ret |-> Ok(row_count(grid)), pre |-> grid]
    /\ iter' = NoIter
    /\ UNCHANGED <<grid, nonGridVars>>

\* grid.iter_row(row)
IterRow(row) ==
    /\ gpc = "live"
    /\ iter = NoIter
    /\ iter' = [kind |-> "row", at |-> row, i |-> 0, out |-> <<>>]
    /\ last' = NoCall
    /\ UNCHANGED <<gpc, grid, nonGridVars>>

\* grid.iter_col(column)
IterCol(column) ==
    /\ gpc = "live"
    /\ iter = NoIter
    /\ iter' = [kind |-> "col", at |-> column, i |-> 0, out |-> <<>>]
    /\ last' = NoCall
    /\ UNCHANGED <<gpc, grid, nonGridVars>>

\* GridRowIterator::next: <<i after, returned item>>
row_next(g, row, i) ==
    IF i >= g.num_columns
    THEN <<i, None>>
    ELSE <<i + 1, get(g, i, row)>>

\* GridColumnIterator::next: <<i after, returned item>>; the division panics
\* for a grid without columns
col_next(g, column, i) ==
    IF DivPanics(g)
    THEN <<i, Panic>>
    ELSE IF i > Len(g.data) \div g.num_columns
    THEN <<i, None>>
    ELSE <<i + 1, get(g, column, i)>>

\* the iterator goes out of scope, which ends its borrow of the grid (a grid
\* call needs the iterator's borrow to have ended)
DropIter ==
    /\ gpc = "live"
    /\ iter # NoIter
    /\ iter' = NoIter
    /\ UNCHANGED <<gpc, grid, last, nonGridVars>>

RowNext ==
    /\ gpc = "live"
    /\ iter.kind = "row"
    /\ Len(iter.out) < MaxNext
    /\ LET r == row_next(grid, iter.at, iter.i)
       IN  iter' = [iter EXCEPT !.i = r[1], !.out = Append(@, r[2])]
    /\ UNCHANGED <<gpc, grid, last, nonGridVars>>

ColNext ==
    /\ gpc = "live"
    /\ iter.kind = "col"
    /\ Len(iter.out) < MaxNext
    /\ LET r == col_next(grid, iter.at, iter.i)
       IN  /\ iter' = [iter EXCEPT !.i = r[1], !.out = Append(@, r[2])]
           /\ gpc' = IF r[2] = Panic THEN "aborted" ELSE gpc
    /\ UNCHANGED <<grid, last, nonGridVars>>

----------------------------------------------------------------------------
(* day6: GameOfLanternfish                                                 *)

\* type Unit = u64.  A count is kept as three limbs <<low, mid, high>> in base
\* 10^9, so that sums of limbs stay inside the checker's integers; the values
\* reached within MaxDays days stay far below 2^64 (no u64 overflow occurs).
LimbBase == 10 ^ 9

U64(n) == <<n, 0, 0>>

U64Add(a, b) ==
    LET s1 == a[1] + b[1]
        c1 == s1 \div LimbBase
        s2 == a[2] + b[2] + c1
        c2 == s2 \div LimbBase
        s3 == a[3] + b[3] + c2
    IN  <<s1 % LimbBase, s2 % LimbBase, s3>>

PARENT_REPRODUCTION_DAYS == 7

Buckets == 0 .. (PARENT_REPRODUCTION_DAYS - 1)

NoGame ==
    [zero_day_bracket |-> 0,
     fishes |-> [b \in Buckets |-> U64(0)],
     seven_day_fishes |-> U64(0),
     eigth_day_fishes |-> U64(0),
     newborn_fishes |-> U64(0)]

\* the loop of from_numbers: game.fishes[*n as usize] += 1, which panics on an
\* index outside the array
RECURSIVE CountTimers(_, _)
CountTimers(fishes, ns) ==
    IF ns = <<>> THEN Ok(fishes)
    ELSE IF Head(ns) >= PARENT_REPRODUCTION_DAYS THEN Panic
    ELSE CountTimers([fishes EXCEPT ![Head(ns)] = U64Add(@, U64(1))], Tail(ns))

from_numbers(ns) ==
    LET r == CountTimers(NoGame.fishes, ns)
    IN  IF r = Panic THEN Panic ELSE Ok([NoGame EXCEPT !.fishes = r.val])

new_parent_day_index(g) ==
    (g.zero_day_bracket + PARENT_REPRODUCTION_DAYS) % PARENT_REPRODUCTION_DAYS

advance_one_day_stale_newborn(g) ==
    LET fishes1 == [g.fishes EXCEPT ![new_parent_day_index(g)] = U64Add(@, g.seven_day_fishes)]
        bracket1 == (g.zero_day_bracket + 1) % PARENT_REPRODUCTION_DAYS
    IN  [zero_day_bracket |-> bracket1,
         fishes |-> fishes1,
         seven_day_fishes |-> g.eigth_day_fishes,
         eigth_day_fishes |-> g.newborn_fishes,
         newborn_fishes |-> fishes1[g.zero_day_bracket]]

advance_one_day(g) ==
    LET fishes1 == [g.fishes EXCEPT ![new_parent_day_index(g)] = U64Add(@, g.seven_day_fishes)]
        bracket1 == (g.zero_day_bracket + 1) % PARENT_REPRODUCTION_DAYS
    IN  [zero_day_bracket |-> bracket1,
         fishes |-> fishes1,
         seven_day_fishes |-> g.eigth_day_fishes,
         eigth_day_fishes |-> g.newborn_fishes,
         newborn_fishes |-> fishes1[bracket1]]

\* self.fishes.iter().sum::<Unit>()
RECURSIVE SumFrom(_, _)
SumFrom(fishes, b) ==
    IF b >= PARENT_REPRODUCTION_DAYS THEN U64(0)
    ELSE U64Add(fishes[b], SumFrom(fishes, b + 1))

count_with_newborn(g) ==
    U64Add(U64Add(U64Add(g.seven_day_fishes, g.eigth_day_fishes), SumFrom(g.fishes, 0)),
           g.newborn_fishes)

count(g) ==
    U64Add(U64Add(g.seven_day_fishes, g.eigth_day_fishes), SumFrom(g.fishes, 0))

\* the numbers of tests::example_part1 / example_part2
ExampleNumbers == <<3, 4, 3, 1, 2>>

FishInputs == {ExampleNumbers} \cup SeqsUpTo(0 .. MaxTimer, MaxFish)

\* GameOfLanternfish::from_numbers(&numbers)
FromNumbers ==
    /\ fpc = "start"
    /\ LET r == from_numbers(numbers)
       IN  IF r = Panic
           THEN fpc' = "aborted" /\ game' = game
           ELSE fpc' = "live" /\ game' = r.val
    /\ UNCHANGED <<numbers, days, counted, nonFishVars>>

\* game.advance_one_day()
AdvanceOneDay ==
    /\ fpc = "live"
    /\ days < MaxDays
    /\ game' = advance_one_day(game)
    /\ days' = days + 1
    /\ counted' = None
    /\ UNCHANGED <<fpc, numbers, nonFishVars>>

\* game.count()
Count ==
    /\ fpc = "live"
    /\ counted' = Some(count(game))
    /\ UNCHANGED <<fpc, numbers, game, days, nonFishVars>>

----------------------------------------------------------------------------
(* day14: NaivePairInserter and StatefulPairInserter                       *)

\* counts are usize (64 bit), kept as limbs like the counts of day6
RECURSIVE SumU(_, _)
SumU(S, m) ==
    IF S = {} THEN U64(0)
    ELSE LET x == CHOOSE x \in S : TRUE
         IN  U64Add(m[x], SumU(S \ {x}, m))

U64Less(a, b) ==
    \/ a[3] < b[3]
    \/ a[3] = b[3] /\ a[2] < b[2]
    \/ a[3] = b[3] /\ a[2] = b[2] /\ a[1] < b[1]

\* the symbols of the small rule tables, and "no rule for this pair"
Symbols == {"A", "B"}
NoRule == "-"

PairsOf(S) == S \X S

\* a rule table holds the pairs that have a rule
RuleTable(f) == [p \in {q \in DOMAIN f : f[q] # NoRule} |-> f[p]]

SmallRules == {RuleTable(f) : f \in [PairsOf(Symbols) -> Symbols \cup {NoRule}]}

\* tests::TEST_RULES
TEST_RULES ==
    (<<"C", "H">> :> "B") @@ (<<"H", "H">> :> "N") @@ (<<"C", "B">> :> "H") @@
    (<<"N", "H">> :> "C") @@ (<<"H", "B">> :> "C") @@ (<<"H", "C">> :> "B") @@
    (<<"H", "N">> :> "C") @@ (<<"N", "N">> :> "C") @@ (<<"B", "H">> :> "H") @@
    (<<"N", "C">> :> "B") @@ (<<"N", "B">> :> "B") @@ (<<"B", "N">> :> "B") @@
    (<<"B", "B">> :> "N") @@ (<<"B", "C">> :> "B") @@ (<<"C", "C">> :> "N") @@
    (<<"C", "N">> :> "C")

\* the template of tests::example_part1 / example_part2
TestTemplate == <<"N", "N", "C", "B">>

\* the steps main runs in part 2
Part2Steps == 40

PolyInputs ==
    {<<TEST_RULES, TestTemplate>>}
        \cup (SmallRules \X SeqsUpTo(Symbols, MaxTemplate))

AllSymbols == Symbols \cup {"N", "C", "B", "H"}

\* how many steps the model takes from an input
StepLimit == IF rules = TEST_RULES /\ template = TestTemplate THEN Part2Steps ELSE MaxSteps

\* input.chars().tuple_windows()
tuple_windows(s) == [i \in 1 .. (Len(s) - 1) |-> <<s[i], s[i + 1]>>]

SeqRange(s) == {s[i] : i \in 1 .. Len(s)}

NoIns == [state |-> <<>>, first |-> NoRule]

\* StatefulPairInserter::new: None for an empty template
stateful_new_distinct(t) ==
    IF t = <<>> THEN None
    ELSE LET w == tuple_windows(t)
         IN  Some([state |-> [p \in SeqRange(w) |-> U64(1)],
                   first |-> t[1]])

stateful_new(t) ==
    IF t = <<>> THEN None
    ELSE LET w == tuple_windows(t)
         IN  Some([state |-> [p \in SeqRange(w) |->
                                 U64(Cardinality({i \in 1 .. Len(w) : w[i] = p}))],
                   first |-> t[1]])

\* StatefulPairInserter::count_elements
stateful_count_elements(i) ==
    LET keys == {p[2] : p \in DOMAIN i.state}
        tally == [c \in keys |-> SumU({p \in DOMAIN i.state : p[2] = c}, i.state)]
    IN  \* count.entry(self.first).and_modify(|e| *e += 1): only an entry that exists
        IF i.first \in keys
        THEN [tally EXCEPT ![i.first] = U64Add(@, U64(1))]
        ELSE tally

\* the map `new` that step builds from `old`
NewPairs(r, old, swapped) ==
    LET left(p) == <<p[1], r[p]>>
        right(p) == IF swapped THEN <<r[p], p[1]>> ELSE <<r[p], p[2]>>
        keys == {left(p) : p \in DOMAIN old} \cup {right(p) : p \in DOMAIN old}
    IN  [q \in keys |->
            U64Add(SumU({p \in DOMAIN old : left(p) = q}, old),
                   SumU({p \in DOMAIN old : right(p) = q}, old))]

\* StatefulPairInserter::step: self.rules.get(current).unwrap() panics on a
\* pair without a rule
step_right_swapped(r, i) ==
    IF \E p \in DOMAIN i.state : p \notin DOMAIN r
    THEN Panic
    ELSE Ok([state |-> NewPairs(r, i.state, TRUE), first |-> i.first])

step(r, i) ==
    IF \E p \in DOMAIN i.state : p \notin DOMAIN r
    THEN Panic
    ELSE Ok([state |-> NewPairs(r, i.state, FALSE), first |-> i.first])

\* NaivePairInserter::count_elements
naive_count_elements(s) ==
    [c \in SeqRange(s) |-> U64(Cardinality({i \in 1 .. Len(s) : s[i] = c}))]

\* the loop of pair_insert from window i on: push tuple.0 and the center
RECURSIVE PushWindows(_, _, _)
PushWindows(r, input, i) ==
    IF i >= Len(input) THEN <<>>
    ELSE <<input[i], r[<<input[i], input[i + 1]>>]>> \o PushWindows(r, input, i + 1)

\* NaivePairInserter::pair_insert
pair_insert_drop_last(r, input) ==
    IF \E i \in 1 .. (Len(input) - 1) : <<input[i], input[i + 1]>> \notin DOMAIN r
    THEN Err
    ELSE Ok(PushWindows(r, input, 1))

pair_insert(r, input) ==
    IF \E i \in 1 .. (Len(input) - 1) : <<input[i], input[i + 1]>> \notin DOMAIN r
    THEN Err
    ELSE Ok(PushWindows(r, input, 1)
            \o (IF input # <<>> THEN <<input[Len(input)]>> ELSE <<>>))

\* StatefulPairInserter::new(rules, template) and NaivePairInserter::new(rules),
\* with `next = template.to_string()`
PolyNew ==
    /\ ppc = "start"
    /\ LET r == stateful_new(template)
       IN  /\ ppc' = IF r = None THEN "empty" ELSE "live"
           /\ ins' = IF r = None THEN ins ELSE r.val
           /\ pret' = [op |-> "new", ret |-> r]
    /\ naive' = template
    /\ UNCHANGED <<rules, template, ksteps, nsteps, nret, nonPolyVars>>

\* stateful_inserter.step()
Step ==
    /\ ppc = "live"
    /\ ksteps < StepLimit
    /\ LET r == step(rules, ins)
       IN  IF r = Panic
           THEN /\ ppc' = "aborted"
                /\ pret' = [op |-> "step", ret |-> Panic, pre |-> ins]
                /\ UNCHANGED <<ins, ksteps>>
           ELSE /\ ins' = r.val
                /\ ksteps' = ksteps + 1
                /\ pret' = [op |-> "step", ret |-> Ok(UnitVal), pre |-> ins]
                /\ ppc' = ppc
    /\ UNCHANGED <<rules, template, naive, nsteps, nret, nonPolyVars>>

\* stateful_inserter.count_elements()
CountElements ==
    /\ ppc = "live"
    /\ pret' = [op |-> "count_elements", ret |-> stateful_count_elements(ins)]
    /\ UNCHANGED <<ppc, rules, template, ins, ksteps, naive, nsteps, nret, nonPolyVars>>

\* next = inserter.pair_insert(&next)?
PairInsert ==
    /\ ppc \in {"live", "empty"}
    /\ nsteps < MaxSteps
    /\ LET r == pair_insert(rules, naive)
       IN  IF r = Err
           THEN /\ nret' = [op |-> "pair_insert", ret |-> Err, pre |-> naive]
                /\ UNCHANGED <<naive, nsteps>>
           ELSE /\ naive' = r.val
                /\ nsteps' = nsteps + 1
                /\ nret' = [op |-> "pair_insert", ret |-> r, pre |-> naive]
    /\ UNCHANGED <<ppc, rules, template, ins, ksteps, pret, nonPolyVars>>

\* NaivePairInserter::count_elements(&next)
NaiveCountElements ==
    /\ ppc \in {"live", "empty"}
    /\ nret' = [op |-> "count_elements", ret |-> naive_count_elements(naive)]
    /\ UNCHANGED <<ppc, rules, template, ins, ksteps, pret, naive, nsteps, nonPolyVars>>

----------------------------------------------------------------------------
(* day9 SmokeBasin                                                         *)

BASIN_DELIMITER == 9

\* heights of the generated heightmaps (digits of the input)
Heights == {0, 1, BASIN_DELIMITER}

\* the heightmap of day9.testinput
ExampleHeightmap ==
    MkGrid(10, <<2, 1, 9, 9, 9, 4, 3, 2, 1, 0,
                 3, 9, 8, 7, 8, 9, 4, 9, 2, 1,
                 9, 8, 5, 6, 7, 8, 9, 8, 9, 2,
                 8, 7, 6, 7, 8, 9, 6, 7, 8, 9,
                 9, 8, 9, 9, 9, 6, 5, 6, 7, 8>>)

\* the grids from_input builds: one row or more, every row of the width of
\* the first (a first line without digits gives a grid of zero columns)
BasinShapes ==
    {sh \in (0 .. BasinSide) \X (1 .. BasinSide) :
        sh[1] * sh[2] <= BasinCells /\ (sh[1] = 0 => sh[2] = 1)}

BasinGrids ==
    {ExampleHeightmap} \cup
    UNION {{MkGrid(sh[1], data) : data \in [1 .. (sh[1] * sh[2]) -> Heights]} :
              sh \in BasinShapes}

\* the points get() gives for the cells of a grid
CellsOf(g) ==
    IF DivPanics(g) THEN {}
    ELSE {Point(x, y, g.data[idx(g, x, y) + 1]) :
             x \in 0 .. (column_count(g) - 1), y \in 0 .. (row_count(g) - 1)}

is_low_point_or_equal(g, point) ==
    IF point.value = BASIN_DELIMITER
    THEN FALSE
    ELSE \A i \in 1 .. 4 :
            LET other == neighbours(g, point.x, point.y)[i]
            IN  other = None \/ point.value <= other.val.value

is_low_point(g, point) ==
    IF point.value = BASIN_DELIMITER
    THEN FALSE
    ELSE \A i \in 1 .. 4 :
            LET other == neighbours(g, point.x, point.y)[i]
            IN  other = None \/ point.value < other.val.value

\* a call that returned the value v (of a function that has no error result)
Returned(v) == [tag |-> "Returned", val |-> v]

\* a call that has not returned yet
Running == [tag |-> "Running"]

\* get_low_points: Panic when dimensions() divides by zero, else the low
\* points in the order of the loops (y outside, x inside)
get_low_points(g) ==
    IF DivPanics(g)
    THEN Panic
    ELSE LET x_dim == column_count(g)
             y_dim == row_count(g)
             nodes == [k \in 1 .. (x_dim * y_dim) |->
                          get(g, (k - 1) % x_dim, (k - 1) \div x_dim)]
             low(node) == node # None /\ is_low_point(g, node.val)
             found == SelectSeq(nodes, low)
         IN  Returned([k \in 1 .. Len(found) |-> found[k].val])

\* the locals of get_basin_size
Locals(q, v, h) == [queue |-> q, visited |-> v, pushed |-> h]

\* VecDeque::pop_front: the pair <<front, rest>>
pop_front_peek(q) == <<Head(q), q>>

pop_front(q) == <<Head(q), Tail(q)>>

\* the test of the for loop of get_basin_size: the neighbour is pushed and
\* inserted when it is a cell below the delimiter that was not visited
unvisited_any_height(seen, neighbour) ==
    neighbour # None /\ neighbour.val \notin seen

unvisited_basin_cell(seen, neighbour) ==
    /\ neighbour # None
    /\ neighbour.val.value < BASIN_DELIMITER
    /\ neighbour.val \notin seen

\* one pass of the while loop of get_basin_size (the four neighbours are
\* four different cells, so the test of one does not depend on the others)
bfs_iteration(g, st) ==
    LET popped == pop_front(st.queue)
        v_point == popped[1]
        n == neighbours(g, v_point.x, v_point.y)
        fresh(neighbour) == unvisited_basin_cell(st.visited, neighbour)
        found == SelectSeq(n, fresh)
        points == [k \in 1 .. Len(found) |-> found[k].val]
    IN  Locals(popped[2] \o points,
               st.visited \cup {points[k] : k \in 1 .. Len(points)},
               st.pushed \o points)

NoLocals ==
    /\ queue' = <<>>
    /\ visited' = {}
    /\ pushed' = <<>>

IsLowPoint(point) ==
    /\ bpc = "live"
    /\ bret' = [op |-> "is_low_point", point |-> point,
                ret |-> is_low_point(basin, point)]
    /\ NoLocals
    /\ UNCHANGED <<bpc, basin, nonBasinVars>>

GetLowPoints ==
    /\ bpc = "live"
    /\ LET r == get_low_points(basin)
       IN  /\ bret' = [op |-> "get_low_points", ret |-> r]
           /\ bpc' = IF r = Panic THEN "aborted" ELSE "live"
    /\ NoLocals
    /\ UNCHANGED <<basin, nonBasinVars>>

\* get_basin_size up to the while loop
GetBasinSize(point) ==
    /\ bpc = "live"
    /\ IF ~is_low_point(basin, point)
       THEN /\ bret' = [op |-> "get_basin_size", point |-> point, ret |-> None]
            /\ NoLocals
            /\ bpc' = "live"
       ELSE /\ bret' = [op |-> "get_basin_size", point |-> point, ret |-> Running]
            /\ queue' = <<point>>
            /\ visited' = {point}
            /\ pushed' = <<point>>
            /\ bpc' = "bfs"
    /\ UNCHANGED <<basin, nonBasinVars>>

\* while !queue.is_empty() { pop_front; for neighbour ... }
BfsIteration ==
    /\ bpc = "bfs"
    /\ queue # <<>>
    /\ LET st == bfs_iteration(basin, Locals(queue, visited, pushed))
       IN  /\ queue' = st.queue
           /\ visited' = st.visited
           /\ pushed' = st.pushed
    /\ UNCHANGED <<bpc, basin, bret, nonBasinVars>>

\* the loop ends on the empty queue: Some(visited.len())
BfsReturn ==
    /\ bpc = "bfs"
    /\ queue = <<>>
    /\ bret' = [bret EXCEPT !.ret = Some(Cardinality(visited))]
    /\ bpc' = "live"
    /\ UNCHANGED <<basin, queue, visited, pushed, nonBasinVars>>

\* the while loop of get_basin_size run to the empty queue
RECURSIVE bfs_run(_, _)
bfs_run(g, st) ==
    IF st.queue = <<>> THEN st ELSE bfs_run(g, bfs_iteration(g, st))

\* get_basin_size as one call
get_basin_size(g, point) ==
    IF ~is_low_point(g, point)
    THEN None
    ELSE Some(Cardinality(bfs_run(g, Locals(<<point>>, {point}, <<point>>)).visited))

\* the position of a largest / a smallest element of a non-empty sequence
MaxAt(q) == CHOOSE i \in 1 .. Len(q) : \A j \in 1 .. Len(q) : q[j] <= q[i]
MinAt(q) == CHOOSE i \in 1 .. Len(q) : \A j \in 1 .. Len(q) : q[i] <= q[j]

Without(q, i) == SubSeq(q, 1, i - 1) \o SubSeq(q, i + 1, Len(q))

RECURSIVE smallest_first(_)
smallest_first(q) ==
    IF q = <<>> THEN <<>>
    ELSE <<q[MinAt(q)]>> \o smallest_first(Without(q, MinAt(q)))

\* sort_unstable_by_key(|s| s.1) followed by reverse(), on the sizes
RECURSIVE biggest_first(_)
biggest_first(q) ==
    IF q = <<>> THEN <<>>
    ELSE <<q[MaxAt(q)]>> \o biggest_first(Without(q, MaxAt(q)))

\* main, part 2: the basin sizes of the low points, biggest first, and the
\* product of the first three (basins[..3] panics on fewer than three)
part2(g, low_points) ==
    LET sizes == [k \in 1 .. Len(low_points) |-> get_basin_size(g, low_points[k])]
        some(o) == o # None
        kept == SelectSeq(sizes, some)
        basins == biggest_first([k \in 1 .. Len(kept) |-> kept[k].val])
    IN  IF Len(basins) < 3
        THEN [basins |-> basins, product |-> Panic]
        ELSE [basins |-> basins,
              product |-> Returned(basins[1] * basins[2] * basins[3])]

\* main after get_low_points returned
Part2 ==
    /\ bpc = "live"
    /\ bret.op = "get_low_points"
    /\ LET r == part2(basin, bret.ret.val)
       IN  /\ bret' = [op |-> "part2", low_points |-> bret.ret.val,
                       basins |-> r.basins, ret |-> r.product]
           /\ bpc' = IF r.product = Panic THEN "aborted" ELSE "live"
    /\ NoLocals
    /\ UNCHANGED <<basin, nonBasinVars>>

----------------------------------------------------------------------------
(* day11 Octopusses                                                        *)

FLASH_THRESHOLD == 9

\* the number of steps of part 1
Part1Steps == 100

\* energy levels of the generated caverns (digits of the input)
OctoEnergies == {0, 8, FLASH_THRESHOLD}

\* the grid of day11.testinput
ExampleOctopusses ==
    MkGrid(10, <<5, 4, 8, 3, 1, 4, 3, 2, 2, 3,
                 2, 7, 4, 5, 8, 5, 4, 7, 1, 1,
                 5, 2, 6, 4, 5, 5, 6, 1, 7, 3,
                 6, 1, 4, 1, 3, 3, 6, 1, 4, 6,
                 6, 3, 5, 7, 3, 8, 5, 4, 7, 8,
                 4, 1, 6, 7, 5, 2, 4, 6, 4, 5,
                 2, 1, 7, 6, 8, 4, 1, 7, 2, 1,
                 6, 8, 8, 2, 8, 8, 1, 1, 3, 4,
                 4, 8, 4, 6, 8, 4, 8, 5, 5, 4,
                 5, 2, 8, 3, 7, 5, 1, 5, 2, 6>>)

\* the grids from_str builds through from_slice: one column or more, any
\* number of full rows
OctoShapes ==
    {sh \in (1 .. OctoSide) \X (0 .. OctoSide) :
        sh[1] * sh[2] <= OctoCells /\ (sh[2] = 0 => sh[1] = 1)}

SmallCaverns ==
    UNION {{MkGrid(sh[1], data) : data \in [1 .. (sh[1] * sh[2]) -> OctoEnergies]} :
              sh \in OctoShapes}

\* how many step() calls the model follows
StepCap == IF cavern = ExampleOctopusses THEN 2 * Part1Steps ELSE OctoSteps

NoSync == [on |-> FALSE, steps |-> 0, flashes |-> 0]

dimensions(g) == <<column_count(g), row_count(g)>>

\* Grid::get_mut: the bounds contract of get
get_mut(g, x, y) == get(g, x, y)

\* Grid::surrounding_indexes: the in-bounds coordinates of the 8 neighbours
surrounding_indexes(g, x, y) ==
    {p \in ((x - 1) .. (x + 1)) \X ((y - 1) .. (y + 1)) :
        /\ p # <<x, y>>
        /\ p[1] >= 0 /\ p[1] < column_count(g)
        /\ p[2] >= 0 /\ p[2] < row_count(g)}

\* flash: the grid after, or Panic when (x, y) is not inside the grid
flash_all_neighbours(g, x, y) ==
    IF get_mut(g, x, y) = None
    THEN Panic
    ELSE LET around == {idx(g, p[1], p[2]) + 1 : p \in surrounding_indexes(g, x, y)}
             middle == idx(g, x, y) + 1
         IN  MkGrid(g.num_columns,
                    [i \in 1 .. Len(g.data) |->
                        IF i = middle THEN 0
                        ELSE IF i \in around THEN g.data[i] + 1
                        ELSE g.data[i]])

flash_orthogonal(g, x, y) ==
    IF get_mut(g, x, y) = None
    THEN Panic
    ELSE LET around == {idx(g, p[1], p[2]) + 1 :
                           p \in {q \in surrounding_indexes(g, x, y) : q[1] = x \/ q[2] = y}}
             middle == idx(g, x, y) + 1
         IN  MkGrid(g.num_columns,
                    [i \in 1 .. Len(g.data) |->
                        IF i = middle THEN 0
                        ELSE IF i \in around /\ g.data[i] > 0 THEN g.data[i] + 1
                        ELSE g.data[i]])

flash(g, x, y) ==
    IF get_mut(g, x, y) = None
    THEN Panic
    ELSE LET around == {idx(g, p[1], p[2]) + 1 : p \in surrounding_indexes(g, x, y)}
             middle == idx(g, x, y) + 1
         IN  MkGrid(g.num_columns,
                    [i \in 1 .. Len(g.data) |->
                        IF i = middle THEN 0
                        ELSE IF i \in around /\ g.data[i] > 0 THEN g.data[i] + 1
                        ELSE g.data[i]])

\* for octopus in self.state.iter_mut() { *octopus += 1 }
increase_all(g) == MkGrid(g.num_columns, [i \in 1 .. Len(g.data) |-> g.data[i] + 1])

\* self.state.iter().any(|p| *p > FLASH_THRESHOLD)
any_at_threshold(g) == \E i \in 1 .. Len(g.data) : g.data[i] >= FLASH_THRESHOLD

any_above(g) == \E i \in 1 .. Len(g.data) : g.data[i] > FLASH_THRESHOLD

Scan(g, n) == [grid |-> g, flashes |-> n]

\* the body of the for loops of step at row-major position k
scan_cell_at_threshold(st, k) ==
    LET g == st.grid
        x == k % column_count(g)
        y == k \div column_count(g)
    IN  IF get(g, x, y).val.value >= FLASH_THRESHOLD
        THEN Scan(flash(g, x, y), st.flashes + 1)
        ELSE st

scan_cell(st, k) ==
    LET g == st.grid
        x == k % column_count(g)
        y == k \div column_count(g)
    IN  IF get(g, x, y).val.value > FLASH_THRESHOLD
        THEN Scan(flash(g, x, y), st.flashes + 1)
        ELSE st

\* the for loops of step from position k to the last cell
RECURSIVE scan_from(_, _)
scan_from(st, k) ==
    IF k >= Len(st.grid.data) THEN st ELSE scan_from(scan_cell(st, k), k + 1)

\* step() up to the while loop
OctoStep ==
    /\ opc = "live"
    /\ osteps < StepCap
    /\ octo' = increase_all(octo)
    /\ flashes' = 0
    /\ oret' = [op |-> "step", ret |-> Running]
    /\ opc' = "scan"
    /\ UNCHANGED <<cavern, scan_at, osteps, flash_sum, sync, nonOctoVars>>

\* one pass of the while loop of step: both for loops
ScanPass ==
    /\ opc = "scan"
    /\ any_above(octo)
    /\ LET st == scan_from(Scan(octo, flashes), 0)
       IN  /\ octo' = st.grid
           /\ flashes' = st.flashes
    /\ UNCHANGED <<opc, cavern, scan_at, oret, osteps, flash_sum, sync, nonOctoVars>>

\* the while loop of step is entered
EnterPass ==
    /\ opc = "scan"
    /\ any_above(octo)
    /\ opc' = "cells"
    /\ scan_at' = 0
    /\ UNCHANGED <<cavern, octo, flashes, oret, osteps, flash_sum, sync, nonOctoVars>>

\* one cell of the for loops of step
ScanCell ==
    /\ opc = "cells"
    /\ LET st == scan_cell(Scan(octo, flashes), scan_at)
           x == scan_at % column_count(octo)
           y == scan_at \div column_count(octo)
       IN  /\ octo' = st.grid
           /\ flashes' = st.flashes
           /\ oret' = IF st.flashes # flashes
                      THEN [op |-> "flash", x |-> x, y |-> y, pre |-> octo]
                      ELSE [op |-> "get", x |-> x, y |-> y, pre |-> octo]
    /\ IF scan_at + 1 >= Len(octo.data)
       THEN opc' = "scan" /\ scan_at' = 0
       ELSE opc' = "cells" /\ scan_at' = scan_at + 1
    /\ UNCHANGED <<cavern, osteps, flash_sum, sync, nonOctoVars>>

\* the while loop of step ends: step returns flashes
StepReturn ==
    /\ opc = "scan"
    /\ ~any_above(octo)
    /\ oret' = [op |-> "step", ret |-> Returned(flashes)]
    /\ osteps' = osteps + 1
    /\ flash_sum' = flash_sum + flashes
    /\ IF sync.on
       THEN sync' = [sync EXCEPT !.flashes = flashes] /\ opc' = "sync"
       ELSE sync' = sync /\ opc' = "live"
    /\ UNCHANGED <<cavern, octo, flashes, scan_at, nonOctoVars>>

\* step_until_synchronized_flash up to its while loop (called on a fresh
\* Octopusses, as main and the tests do)
StepUntilSynchronizedFlash ==
    /\ opc = "live"
    /\ osteps = 0
    /\ sync' = [on |-> TRUE, steps |-> 0, flashes |-> 0]
    /\ opc' = "sync"
    /\ oret' = [op |-> "step_until_synchronized_flash", ret |-> Running]
    /\ UNCHANGED <<cavern, octo, flashes, scan_at, osteps, flash_sum, nonOctoVars>>

\* while flashes != octocount { steps += 1; flashes = self.step() }
SyncStep ==
    /\ opc = "sync"
    /\ sync.flashes # dimensions(octo)[1] * dimensions(octo)[2]
    /\ sync.steps < StepCap
    /\ sync' = [sync EXCEPT !.steps = sync.steps + 1]
    /\ octo' = increase_all(octo)
    /\ flashes' = 0
    /\ oret' = [op |-> "step", ret |-> Running]
    /\ opc' = "scan"
    /\ UNCHANGED <<cavern, scan_at, osteps, flash_sum, nonOctoVars>>

SyncReturn ==
    /\ opc = "sync"
    /\ sync.flashes = dimensions(octo)[1] * dimensions(octo)[2]
    /\ oret' = [op |-> "step_until_synchronized_flash", ret |-> Returned(sync.steps)]
    /\ sync' = [sync EXCEPT !.on = FALSE]
    /\ opc' = "live"
    /\ UNCHANGED <<cavern, octo, flashes, scan_at, osteps, flash_sum, nonOctoVars>>

----------------------------------------------------------------------------
(* day3 Report                                                             *)

\* ReportBits: a BitVec as a sequence of booleans
BitVecs == SeqsUpTo(BOOLEAN, MaxBits)

ReportInputs == SeqsUpTo(BitVecs, MaxReports)

NoReport == [size |-> 0, data |-> <<>>]

\* BitVec::get
bit_get(b, i) == IF i < Len(b) THEN Some(b[i + 1]) ELSE None

\* from_bits: Err for an empty slice or bits of uneven length
from_bits(data) ==
    IF data = <<>>
    THEN Err
    ELSE LET size == Len(data[1])
         IN  IF \E k \in 1 .. Len(data) : Len(data[k]) # size
             THEN Err
             ELSE Ok([size |-> size, data |-> data])

count_ones_column(bs, i) ==
    Cardinality({k \in 1 .. Len(bs) : bit_get(bs[k], i) = Some(TRUE)})

most_common_bit_ones_on_tie(bs, i) ==
    LET ones == count_ones_column(bs, i)
        zeroes == Len(bs) - ones
    IN  IF ones < zeroes THEN Some(FALSE) ELSE Some(TRUE)

most_common_bit(bs, i) ==
    LET ones == count_ones_column(bs, i)
        zeroes == Len(bs) - ones
    IN  IF ones < zeroes THEN Some(FALSE)
        ELSE IF ones = zeroes THEN None
        ELSE Some(TRUE)

gamma_rate(r) ==
    [position \in 1 .. r.size |-> most_common_bit(r.data, position - 1) = Some(TRUE)]

\* BitVec::negate on the gamma rate
epsilon_rate(r) ==
    LET gamma == gamma_rate(r)
    IN  [position \in 1 .. Len(gamma) |-> ~gamma[position]]

FromBits ==
    /\ rpc = "start"
    /\ LET r == from_bits(bits)
       IN  /\ rret' = [op |-> "from_bits", ret |-> IF r = Err THEN Err ELSE Ok(UnitVal)]
           /\ report' = IF r = Err THEN report ELSE r.val
           /\ rpc' = IF r = Err THEN "failed" ELSE "live"
    /\ UNCHANGED <<bits, nonReportVars>>

GammaRate ==
    /\ rpc = "live"
    /\ rret' = [op |-> "gamma_rate", ret |-> gamma_rate(report)]
    /\ UNCHANGED <<rpc, bits, report, nonReportVars>>

EpsilonRate ==
    /\ rpc = "live"
    /\ rret' = [op |-> "epsilon_rate", ret |-> epsilon_rate(report)]
    /\ UNCHANGED <<rpc, bits, report, nonReportVars>>

-----------------------------------------------------------------------------
(* day4 BingoGame                                                          *)

BINGO_BOARD_GRID == 5

Open(n) == [tag |-> "Open", n |-> n]
Crossed(n) == [tag |-> "Crossed", n |-> n]

BingoBoard(data) == [data |-> data]

Winner(turns, winning_number, winning_board) ==
    [turns |-> turns, winning_number |-> winning_number,
     winning_board |-> winning_board]

\* the numbers that are drawn (a block can also hold 0, which is never drawn)
BingoNumbers == 1 .. MaxNumber

Side == 0 .. (BINGO_BOARD_GRID - 1)

\* the blocks that are tried, as the numbers of a block row by row: row 0
\* holds a and every other cell 0; column 0 holds a and every other cell 0; the
\* diagonal holds a and every other cell the next number; and a block of a
\* single line of five numbers
BingoBlocks ==
    LET cells == 1 .. (BINGO_BOARD_GRID * BINGO_BOARD_GRID)
        x(k) == (k - 1) % BINGO_BOARD_GRID
        y(k) == (k - 1) \div BINGO_BOARD_GRID
    IN  {[k \in cells |-> IF y(k) = 0 THEN a ELSE 0] : a \in BingoNumbers}
            \cup {[k \in cells |-> IF x(k) = 0 THEN a ELSE 0] : a \in BingoNumbers}
            \cup {[k \in cells |-> IF x(k) = y(k) THEN a ELSE (a % MaxNumber) + 1] :
                    a \in BingoNumbers}
            \cup {Repeat(0, BINGO_BOARD_GRID)}

BingoInputs == SeqsUpTo(BingoBlocks, MaxBoards)
BingoCalls == SeqsUpTo(BingoNumbers, MaxCalls)

\* BingoBoard::from_str on a block whose tokens are the numbers ns
board_from_str(ns) ==
    IF Len(ns) % BINGO_BOARD_GRID # 0
    THEN Err
    ELSE Ok(BingoBoard(MkGrid(BINGO_BOARD_GRID, [k \in 1 .. Len(ns) |-> Open(ns[k])])))

\* parse_input: every block parses, or the whole input is rejected
parse_input(bs) ==
    IF \E k \in 1 .. Len(bs) : board_from_str(bs[k]) = Err
    THEN Err
    ELSE Ok([k \in 1 .. Len(bs) |-> Some(board_from_str(bs[k]).val)])

cross(board, number) ==
    BingoBoard(MkGrid(board.data.num_columns,
        [k \in 1 .. Len(board.data.data) |->
            IF board.data.data[k] = Open(number)
            THEN Crossed(number)
            ELSE board.data.data[k]]))

\* the items iter_row(row) yields from position i on, until next() gives None
RECURSIVE iter_row_items(_, _, _)
iter_row_items(g, row, i) ==
    LET r == row_next(g, row, i)
    IN  IF r[2].tag # "Some"
        THEN <<>>
        ELSE <<r[2].val.value>> \o iter_row_items(g, row, r[1])

\* the items iter_col(column) yields from position i on (a board always has
\* BINGO_BOARD_GRID columns, so the division of next() is defined)
RECURSIVE iter_col_items(_, _, _)
iter_col_items(g, column, i) ==
    LET r == col_next(g, column, i)
    IN  IF r[2].tag # "Some"
        THEN <<>>
        ELSE <<r[2].val.value>> \o iter_col_items(g, column, r[1])

AllCrossed(items) == \A k \in 1 .. Len(items) : items[k].tag = "Crossed"

is_bingo(board) ==
    \E i \in Side :
        \/ AllCrossed(iter_col_items(board.data, i, 0))
        \/ AllCrossed(iter_row_items(board.data, i, 0))

\* play_number from board i (1-based) on: [boards after, returned index]
RECURSIVE play_number_from(_, _, _)
play_number_from(bs, number, i) ==
    IF i > Len(bs)
    THEN [boards |-> bs, ret |-> None]
    ELSE IF bs[i] = None
    THEN play_number_from(bs, number, i + 1)
    ELSE LET board == cross(bs[i].val, number)
             after == [bs EXCEPT ![i] = Some(board)]
         IN  IF is_bingo(board)
             THEN [boards |-> after, ret |-> Some(i - 1)]
             ELSE play_number_from(after, number, i + 1)

play_number(bs, number) == play_number_from(bs, number, 1)

\* play from the number at index i of the slice on: [boards after, returned winner]
RECURSIVE play_from(_, _, _)
play_from(bs, ns, i) ==
    IF i >= Len(ns)
    THEN [boards |-> bs, ret |-> None]
    ELSE LET n == ns[i + 1]
             r == play_number(bs, n)
         IN  IF r.ret # None
             THEN [boards |-> [r.boards EXCEPT ![r.ret.val + 1] = None],
                   ret |-> Some(Winner(i, n, r.boards[r.ret.val + 1].val))]
             ELSE play_from(r.boards, ns, i + 1)

play(bs, ns) == play_from(bs, ns, 0)

\* the slice &called[offset..]
SliceFrom(s, from) == SubSeq(s, from + 1, Len(s))

\* what the history keeps of a returned winner: the board's index, the number,
\* how many of the called numbers had been drawn, and the call that returned it
Won(before, r, via) ==
    [idx |-> CHOOSE i \in 0 .. (Len(before) - 1) :
                before[i + 1] # None /\ r.boards[i + 1] = None,
     winning_number |-> r.ret.val.winning_number,
     at |-> offset + r.ret.val.turns + 1,
     winning_board |-> r.ret.val.winning_board,
     via |-> via]

\* parse_input
ParseInput ==
    /\ kpc = "start"
    /\ LET r == parse_input(blocks)
       IN  /\ kpc' = IF r = Err THEN "failed" ELSE "live"
           /\ boards' = IF r = Err THEN boards ELSE r.val
           /\ kret' = [op |-> "parse_input", ret |-> IF r = Err THEN Err ELSE Ok(UnitVal)]
    /\ UNCHANGED <<called, blocks, offset, last_winner, winners, nonBingoVars>>

\* main, part 1: game.play(&numbers); a winner's turns start the slice of part 2
Play ==
    /\ kpc = "live"
    /\ kret.op = "parse_input"
    /\ LET r == play(boards, SliceFrom(called, offset))
       IN  /\ boards' = r.boards
           /\ kret' = [op |-> "play", ret |-> r.ret]
           /\ offset' = IF r.ret = None THEN offset ELSE offset + r.ret.val.turns
           /\ winners' = IF r.ret = None THEN winners
                         ELSE Append(winners, Won(boards, r, "play"))
    /\ UNCHANGED <<kpc, called, blocks, last_winner, nonBingoVars>>

\* play_to_end is called: let mut last_winner = None
PlayToEnd ==
    /\ kpc = "live"
    /\ kret.op \in {"parse_input", "play"}
    /\ kret.ret # None
    /\ kpc' = "loop"
    /\ last_winner' = None
    /\ kret' = [op |-> "play_to_end", ret |-> Running]
    /\ UNCHANGED <<called, blocks, boards, offset, winners, nonBingoVars>>

\* one iteration of the while loop: self.play(numbers) gave a winner
PlayLoop ==
    /\ kpc = "loop"
    /\ LET r == play(boards, SliceFrom(called, offset))
       IN  /\ r.ret # None
           /\ boards' = r.boards
           /\ offset' = offset + r.ret.val.turns
           /\ last_winner' = r.ret
           /\ winners' = Append(winners, Won(boards, r, "play_to_end"))
    /\ UNCHANGED <<kpc, called, blocks, kret, nonBingoVars>>

\* self.play(numbers) gave None: the loop ends and last_winner is returned
PlayToEndReturn ==
    /\ kpc = "loop"
    /\ LET r == play(boards, SliceFrom(called, offset))
       IN  /\ r.ret = None
           /\ boards' = r.boards
    /\ kpc' = "live"
    /\ kret' = [op |-> "play_to_end", ret |-> Returned(last_winner)]
    /\ UNCHANGED <<called, blocks, offset, last_winner, winners, nonBingoVars>>

-----------------------------------------------------------------------------
(* day10 parse_line                                                        *)

\* Line; an OpeningToken is "Round", "Square", "Curly" or "Pointy"
Empty == [tag |-> "Empty"]
Corrupted(s, token, c) == [tag |-> "Corrupted", line |-> s, last |-> token, char |-> c]
Incomplete(s, open) == [tag |-> "Incomplete", line |-> s, open |-> open]
Complete(s) == [tag |-> "Complete", line |-> s]

closing_char(c) ==
    CASE c = "Round" -> ")"
      [] c = "Square" -> "]"
      [] c = "Curly" -> "}"
      [] c = "Pointy" -> ">"

opening_token(c) ==
    CASE c = "(" -> Some("Round")
      [] c = "[" -> Some("Square")
      [] c = "{" -> Some("Curly")
      [] c = "<" -> Some("Pointy")
      [] OTHER -> None

\* the lines that are tried: round and square brackets only
NavLines == SeqsUpTo({"(", ")", "[", "]"}, MaxLine)

\* the for loop of parse_line from character i (1-based) on, with the stack open
RECURSIVE parse_chars(_, _, _)
parse_chars(s, i, open) ==
    IF i > Len(s)
    THEN IF open = <<>> THEN Complete(s) ELSE Incomplete(s, open)
    ELSE IF opening_token(s[i]) # None
    THEN parse_chars(s, i + 1, Append(open, opening_token(s[i]).val))
    ELSE IF open # <<>>
    THEN IF s[i] = closing_char(open[Len(open)])
         THEN parse_chars(s, i + 1, SubSeq(open, 1, Len(open) - 1))
         ELSE Corrupted(s, open[Len(open)], s[i])
    ELSE parse_chars(s, i + 1, open)

parse_line(s) ==
    IF s = <<>>
    THEN Empty
    ELSE IF opening_token(s[1]) = None
    THEN Empty
    ELSE parse_chars(s, 2, <<opening_token(s[1]).val>>)

ParseLine ==
    /\ lpc = "start"
    /\ lpc' = "parsed"
    /\ lret' = [op |-> "parse_line", ret |-> parse_line(line)]
    /\ UNCHANGED <<line, nonNavVars>>

----------------------------------------------------------------------------
(* Idle values and the specifications                                         *)

FishIdle ==
    /\ fpc = "idle"
    /\ numbers = <<>>
    /\ game = NoGame
    /\ days = 0
    /\ counted = None

PolyIdle ==
    /\ ppc = "idle"
    /\ rules = <<>>
    /\ template = <<>>
    /\ ins = NoIns
    /\ ksteps = 0
    /\ pret = NoCall
    /\ naive = <<>>
    /\ nsteps = 0
    /\ nret = NoCall

BasinIdle ==
    /\ bpc = "idle"
    /\ basin = NoGrid
    /\ bret = NoCall
    /\ queue = <<>>
    /\ visited = {}
    /\ pushed = <<>>

OctoIdle ==
    /\ opc = "idle"
    /\ cavern = NoGrid
    /\ octo = NoGrid
    /\ flashes = 0
    /\ scan_at = 0
    /\ oret = NoCall
    /\ osteps = 0
    /\ flash_sum = 0
    /\ sync = NoSync

ReportIdle ==
    /\ rpc = "idle"
    /\ bits = <<>>
    /\ report = NoReport
    /\ rret = NoCall

BingoIdle ==
    /\ kpc = "start"
    /\ called = <<>>
    /\ blocks = <<>>
    /\ boards = <<>>
    /\ offset = 0
    /\ last_winner = None
    /\ winners = <<>>
    /\ kret = NoCall

NavIdle ==
    /\ lpc = "start"
    /\ line = <<>>
    /\ lret = NoCall

GridIdle ==
    /\ gpc = "idle"
    /\ grid = NoGrid
    /\ last = NoCall
    /\ iter = NoIter

InitGrid ==
    /\ gpc = "none"
    /\ grid = NoGrid
    /\ last = NoCall
    /\ iter = NoIter
    /\ FishIdle
    /\ PolyIdle
    /\ BasinIdle
    /\ OctoIdle
    /\ ReportIdle
    /\ BingoIdle
    /\ NavIdle

\* a grid under construction and mutation (a behaviour constructs one grid)
NextGrid ==
    \/ \E c \in 0 .. MaxCols : New(c)
    \/ \E x \in 0 .. MaxCols, y \in 0 .. MaxRows, d \in Values : WithDefault(x, y, d)
    \/ gpc = "none" /\ \E data \in Slices, c \in 0 .. MaxCols : FromSlice(data, c)
    \/ \E data \in SeqsUpTo(Values, MaxCols) : FromFirstRow(data)
    \/ \E values \in RowSlices : AddRow(values)
    \/ \E x \in Coords, y \in Lines, v \in Values : Set(x, y, v)
    \/ RowCount

\* a constructed grid read through its accessors and iterators (none of them
\* changes the grid, so every grid the constructors give is read)
NextGridView ==
    \/ \E c \in 0 .. MaxCols : New(c)
    \/ \E x \in 0 .. MaxCols, y \in 0 .. MaxRows, d \in Values : WithDefault(x, y, d)
    \/ gpc = "none" /\ \E data \in Slices, c \in 0 .. MaxCols : FromSlice(data, c)
    \/ \E data \in SeqsUpTo(Values, MaxCols) : FromFirstRow(data)
    \/ \E x \in Coords, y \in Lines : Get(x, y)
    \/ \E x \in Coords, y \in Lines : Neighbours(x, y)
    \/ \E row \in Lines : IterRow(row)
    \/ \E column \in Coords : IterCol(column)
    \/ RowNext
    \/ ColNext
    \/ DropIter

SpecGrid == InitGrid /\ [][NextGrid]_vars

SpecGridView == InitGrid /\ [][NextGridView]_vars

InitFish ==
    /\ fpc = "start"
    /\ numbers \in FishInputs
    /\ game = NoGame
    /\ days = 0
    /\ counted = None
    /\ GridIdle
    /\ PolyIdle
    /\ BasinIdle
    /\ OctoIdle
    /\ ReportIdle
    /\ BingoIdle
    /\ NavIdle

NextFish ==
    \/ FromNumbers
    \/ AdvanceOneDay
    \/ Count

SpecFish == InitFish /\ [][NextFish]_vars

InitPoly ==
    /\ ppc = "start"
    /\ \E input \in PolyInputs : rules = input[1] /\ template = input[2]
    /\ ins = NoIns
    /\ ksteps = 0
    /\ pret = NoCall
    /\ naive = <<>>
    /\ nsteps = 0
    /\ nret = NoCall
    /\ GridIdle
    /\ FishIdle
    /\ BasinIdle
    /\ OctoIdle
    /\ ReportIdle
    /\ BingoIdle
    /\ NavIdle

NextPoly ==
    \/ PolyNew
    \/ Step
    \/ CountElements
    \/ PairInsert
    \/ NaiveCountElements

SpecPoly == InitPoly /\ [][NextPoly]_vars

\* the state after SmokeBasin::from_input returned a basin
InitBasin ==
    /\ bpc = "live"
    /\ basin \in BasinGrids
    /\ bret = NoCall
    /\ queue = <<>>
    /\ visited = {}
    /\ pushed = <<>>
    /\ GridIdle
    /\ FishIdle
    /\ PolyIdle
    /\ OctoIdle
    /\ ReportIdle
    /\ BingoIdle
    /\ NavIdle

NextBasin ==
    \/ \E point \in CellsOf(basin) : IsLowPoint(point)
    \/ GetLowPoints
    \/ \E point \in CellsOf(basin) : GetBasinSize(point)
    \/ BfsIteration
    \/ BfsReturn
    \/ Part2

SpecBasin == InitBasin /\ [][NextBasin]_vars

\* get_basin_size alone; a loop that can make a pass makes it
NextBasinFair ==
    \/ \E point \in CellsOf(basin) : GetBasinSize(point)
    \/ BfsIteration
    \/ BfsReturn

SpecBasinFair ==
    InitBasin /\ [][NextBasinFair]_vars /\ WF_vars(BfsIteration) /\ WF_vars(BfsReturn)

\* the state after Octopusses::from_str returned
InitOcto ==
    /\ opc = "live"
    /\ cavern \in SmallCaverns \cup {ExampleOctopusses}
    /\ octo = cavern
    /\ flashes = 0
    /\ scan_at = 0
    /\ oret = NoCall
    /\ osteps = 0
    /\ flash_sum = 0
    /\ sync = NoSync
    /\ GridIdle
    /\ FishIdle
    /\ PolyIdle
    /\ BasinIdle
    /\ ReportIdle
    /\ BingoIdle
    /\ NavIdle

\* step and step_until_synchronized_flash, a pass of the while loop at a time
NextOcto ==
    \/ OctoStep
    \/ ScanPass
    \/ StepReturn
    \/ StepUntilSynchronizedFlash
    \/ SyncStep
    \/ SyncReturn

SpecOcto == InitOcto /\ [][NextOcto]_vars

\* step on the small caverns, a cell of the for loops at a time
InitFlash == InitOcto /\ cavern \in SmallCaverns

NextFlash ==
    \/ OctoStep
    \/ EnterPass
    \/ ScanCell
    \/ StepReturn

SpecFlash == InitFlash /\ [][NextFlash]_vars

\* a step that was called runs on: its loops are not suspended
SpecFlashFair ==
    InitFlash /\ [][NextFlash]_vars
        /\ WF_vars(EnterPass) /\ WF_vars(ScanCell) /\ WF_vars(StepReturn)

InitReport ==
    /\ rpc = "start"
    /\ bits \in ReportInputs
    /\ report = NoReport
    /\ rret = NoCall
    /\ GridIdle
    /\ FishIdle
    /\ PolyIdle
    /\ BasinIdle
    /\ OctoIdle
    /\ BingoIdle
    /\ NavIdle

NextReport ==
    \/ FromBits
    \/ GammaRate
    \/ EpsilonRate

SpecReport == InitReport /\ [][NextReport]_vars

InitBingo ==
    /\ kpc = "start"
    /\ called \in BingoCalls
    /\ blocks \in BingoInputs
    /\ boards = <<>>
    /\ offset = 0
    /\ last_winner = None
    /\ winners = <<>>
    /\ kret = NoCall
    /\ GridIdle
    /\ FishIdle
    /\ PolyIdle
    /\ BasinIdle
    /\ OctoIdle
    /\ ReportIdle
    /\ NavIdle

NextBingo ==
    \/ ParseInput
    \/ Play
    \/ PlayToEnd
    \/ PlayLoop
    \/ PlayToEndReturn

SpecBingo == InitBingo /\ [][NextBingo]_vars

InitNav ==
    /\ lpc = "start"
    /\ line \in NavLines
    /\ lret = NoCall
    /\ GridIdle
    /\ FishIdle
    /\ PolyIdle
    /\ BasinIdle
    /\ OctoIdle
    /\ ReportIdle
    /\ BingoIdle

NextNav == ParseLine

SpecNav == InitNav /\ [][NextNav]_vars

----------------------------------------------------------------------------
(* Properties of Grid                                                      *)

IsMultiple(n, c) == \E k \in 0 .. n : n = k * c

\* (x, y) lies outside the grid: x >= columns or y >= rows
OutOfBounds(g, x, y) == x >= g.num_columns \/ y >= Len(g.data) \div g.num_columns

\* the cell at (x, y) read straight from the row-major storage, nothing outside
CellAt(g, x, y) ==
    IF x >= 0 /\ y >= 0 /\ ~OutOfBounds(g, x, y)
    THEN Some(Point(x, y, g.data[g.num_columns * y + x + 1]))
    ELSE None

\* C1: on a grid with c >= 1 columns, get(x, y) returns nothing iff x >= c or
\* y >= r, and otherwise the cell (x, y) holding data[c*y + x].
C1_GetBounds ==
    (last.op = "get" /\ last.pre.num_columns >= 1) =>
        LET g == last.pre
            c == g.num_columns
            r == Len(g.data) \div c
        IN  /\ (last.ret = None) <=> (last.x >= c \/ last.y >= r)
            /\ last.ret # None =>
                  last.ret = Some(Point(last.x, last.y, g.data[c * last.y + last.x + 1]))

C1_Witness ==
    /\ last.op = "get"
    /\ last.pre.num_columns = 2
    /\ Len(last.pre.data) = 4
    /\ last.x = 1 /\ last.y = 1
    /\ last.ret = Some(Point(1, 1, 1))

\* C2: set(x, y, value) with (x, y) out of bounds (x >= columns or y >= rows)
\* returns nothing and leaves every cell unchanged.
C2_SetOutOfBoundsIsNoOp ==
    (last.op = "set" /\ OutOfBounds(last.pre, last.x, last.y)) =>
        (last.ret = None /\ grid = last.pre)

\* C3: from_slice(data, num_columns) returns an error exactly when data.len()
\* is not a multiple of num_columns; on success column_count() = num_columns
\* and column_count() * row_count() = data.len().
C3_FromSlice ==
    last.op = "from_slice" =>
        /\ (last.ret = Err) <=> ~IsMultiple(Len(last.data), last.c)
        /\ last.ret # Err =>
              /\ last.ret = Ok(UnitVal)
              /\ column_count(grid) = last.c
              /\ ~DivPanics(grid)
              /\ column_count(grid) * row_count(grid) = Len(last.data)

\* C4: after any sequence of add_row and set calls on a constructed grid the
\* data length is a multiple of num_columns and num_columns has not changed.
C4_ShapeInvariant ==
    gpc = "live" =>
        /\ IsMultiple(Len(grid.data), grid.num_columns)
        /\ last.op \in {"add_row", "set"} => grid.num_columns = last.pre.num_columns

C4_Witness ==
    /\ gpc = "live"
    /\ last.op = "add_row"
    /\ last.ret = Ok(UnitVal)
    /\ last.pre.num_columns = 2
    /\ Len(last.pre.data) = 2
    /\ Len(grid.data) = 4

\* C5: add_row(values) returns an error exactly when values.len() differs from
\* num_columns and then leaves the grid unchanged (a get into the row that
\* does not exist yet returns nothing); otherwise the row count grows by one,
\* the new values are readable in order at y = old row count and every
\* earlier cell keeps its value.
C5_AddRow ==
    last.op = "add_row" =>
        LET pre == last.pre
            c == pre.num_columns
        IN  /\ (last.ret = Err) <=> (Len(last.values) # c)
            /\ last.ret = Err =>
                  /\ grid = pre
                  /\ \A x \in Coords, y \in Lines :
                        OutOfBounds(pre, x, y) => get(grid, x, y) = None
            /\ last.ret # Err =>
                  /\ ~DivPanics(grid)
                  /\ row_count(grid) = row_count(pre) + 1
                  /\ \A x \in 0 .. (c - 1) :
                        get(grid, x, row_count(pre))
                            = Some(Point(x, row_count(pre), last.values[x + 1]))
                  /\ \A x \in Coords, y \in Lines :
                        y < row_count(pre) => get(grid, x, y) = get(pre, x, y)

\* C6: for in-bounds (x, y), neighbours(x, y) is exactly the four slots
\* (left, up, right, down) = cells (x-1,y), (x,y-1), (x+1,y), (x,y+1), each
\* nothing when outside the grid: no wraparound and no diagonal cell.
C6_Neighbours ==
    (last.op = "neighbours" /\ ~OutOfBounds(last.pre, last.x, last.y)) =>
        LET g == last.pre
            x == last.x
            y == last.y
        IN  /\ Len(last.ret) = 4
            /\ last.ret = <<CellAt(g, x - 1, y), CellAt(g, x, y - 1),
                            CellAt(g, x + 1, y), CellAt(g, x, y + 1)>>

C6_Witness ==
    /\ last.op = "neighbours"
    /\ last.pre.num_columns = 2
    /\ Len(last.pre.data) = 4
    /\ last.x = 1 /\ last.y = 0
    /\ last.ret[1] = Some(Point(0, 0, 1))
    /\ last.ret[2] = None
    /\ last.ret[3] = None
    /\ last.ret[4] = Some(Point(1, 1, 0))

\* C7: iter_row(y) yields the cells (0,y)..(columns-1,y) in increasing x and
\* iter_col(x) the cells (x,0)..(x,rows-1) in increasing y; every later
\* next() returns nothing; for y >= rows or x >= columns the sequence is
\* empty, and no next() aborts.
C7_Iterators ==
    iter.kind \in {"row", "col"} =>
        \A k \in 1 .. Len(iter.out) :
            /\ iter.out[k] # Panic
            /\ iter.kind = "row" =>
                  iter.out[k] = IF k <= grid.num_columns
                                THEN CellAt(grid, k - 1, iter.at)
                                ELSE None
            /\ iter.kind = "col" =>
                  iter.out[k] = IF iter.at < grid.num_columns /\ k <= row_count(grid)
                                THEN CellAt(grid, iter.at, k - 1)
                                ELSE None

\* C8: for in-bounds (x, y), set(x, y, v) returns the value stored at (x, y)
\* before, afterwards get(x, y) holds v and every other cell is unchanged.
C8_SetInBounds ==
    (last.op = "set" /\ ~OutOfBounds(last.pre, last.x, last.y)) =>
        LET pre == last.pre
            c == pre.num_columns
        IN  /\ last.ret = Some(pre.data[c * last.y + last.x + 1])
            /\ get(grid, last.x, last.y) = Some(Point(last.x, last.y, last.v))
            /\ grid.num_columns = c
            /\ Len(grid.data) = Len(pre.data)
            /\ \A x \in Coords, y \in Lines :
                  <<x, y>> # <<last.x, last.y>> => get(grid, x, y) = get(pre, x, y)

C8_Witness ==
    /\ last.op = "set"
    /\ last.pre.num_columns = 2
    /\ Len(last.pre.data) = 4
    /\ last.x = 0 /\ last.y = 1
    /\ last.v = 0
    /\ last.ret = Some(1)
    /\ grid.data[3] = 0

\* C30: no public Grid constructor or accessor aborts: from_slice with
\* num_columns = 0 returns an error, and row_count() and dimensions() return a
\* value for every grid that new, with_default, from_first_row or from_slice
\* produced, grids with zero columns included.
C30_GridNeverAborts ==
    /\ gpc # "aborted"
    /\ (last.op = "from_slice" /\ last.c = 0) => last.ret = Err
    /\ last.op = "row_count" => last.ret.tag = "Ok"

----------------------------------------------------------------------------
(* Properties of GameOfLanternfish                                         *)

\* C9: from_numbers([3,4,3,1,2]) followed by 18 advance_one_day calls gives
\* count() = 26, by 80 calls 5934 and by 256 calls 26984457539.
C9_ExampleCounts ==
    (numbers = ExampleNumbers /\ counted # None) =>
        /\ days = 18 => counted = Some(<<26, 0, 0>>)
        /\ days = 80 => counted = Some(<<5934, 0, 0>>)
        /\ days = 256 => counted = Some(<<984457539, 26, 0>>)

C9_Witness ==
    /\ numbers = ExampleNumbers
    /\ days = 256
    /\ counted = Some(<<984457539, 26, 0>>)

\* C10 as stated: count() is the sum of the 7 buckets and of all three staging
\* counts (the 7-day stage, the 8-day stage and the just-born stage).
C10_CountIncludesNewborn ==
    counted # None =>
        counted = Some(U64Add(SumFrom(game.fishes, 0),
                              U64Add(game.seven_day_fishes,
                                     U64Add(game.eigth_day_fishes, game.newborn_fishes))))

\* C10 amended: count() is the sum of the 7 buckets and of the 7-day and 8-day
\* staging counts only; the just-born count is left out, being a copy of the
\* bucket the rotating pointer is at (set by every advance_one_day).
C10_CountExcludesNewborn ==
    counted # None =>
        /\ counted = Some(U64Add(SumFrom(game.fishes, 0),
                                 U64Add(game.seven_day_fishes, game.eigth_day_fishes)))
        /\ days >= 1 => game.newborn_fishes = game.fishes[game.zero_day_bracket]

C10_Witness ==
    /\ counted # None
    /\ days >= 10
    /\ game.newborn_fishes # U64(0)
    /\ game.seven_day_fishes # U64(0)
    /\ game.eigth_day_fishes # U64(0)

\* C11: the population counter's operations are total: for every list of
\* unsigned day counters given to from_numbers and every number of later
\* advance_one_day and count calls no operation aborts (no index outside the
\* 7-bucket array is accessed).
C11_NoAbort == fpc # "aborted"

\* the reference model of the population: how many entities have each timer
\* value 0 .. 8 (the count of timer t is at position t + 1)
RefStart(ns) ==
    LET n(t) == U64(Cardinality({k \in 1 .. Len(ns) : ns[k] = t}))
    IN  <<n(0), n(1), n(2), n(3), n(4), n(5), n(6), n(7), n(8)>>

\* one day: every entity with timer 0 resets to 6 and adds one new entity with
\* timer 8, every other entity's timer decreases by 1
RefDay(pop) ==
    <<pop[2], pop[3], pop[4], pop[5], pop[6], pop[7],
      U64Add(pop[8], pop[1]), pop[9], pop[1]>>

RECURSIVE RefAfter(_, _)
RefAfter(pop, n) == IF n = 0 THEN pop ELSE RefAfter(RefDay(pop), n - 1)

RECURSIVE RefSum(_, _)
RefSum(pop, i) ==
    IF i > Len(pop) THEN U64(0)
    ELSE U64Add(pop[i], RefSum(pop, i + 1))

RefPopulation(ns, n) == RefSum(RefAfter(RefStart(ns), n), 1)

TimersInRange == \A k \in 1 .. Len(numbers) : numbers[k] < PARENT_REPRODUCTION_DAYS

\* C28: for every initial list of timers in 0..6 and every n >= 0, count()
\* after n advance_one_day calls equals the population after n days of the
\* per-entity reference model
C28_MatchesReference ==
    (TimersInRange /\ counted # None) =>
        counted = Some(RefPopulation(numbers, days))

\* the same for the lists in which no timer starts at 0
MatchesReferenceWithoutZeroTimers ==
    (/\ TimersInRange
     /\ \A k \in 1 .. Len(numbers) : numbers[k] # 0
     /\ counted # None) =>
        counted = Some(RefPopulation(numbers, days))

----------------------------------------------------------------------------
(* Properties of the pair inserters                                        *)

\* the sum of all pair counts of an inserter
PairSum(i) == SumU(DOMAIN i.state, i.state)

\* u doubled k times
RECURSIVE DoubleTimes(_, _)
DoubleTimes(u, k) == IF k = 0 THEN u ELSE DoubleTimes(U64Add(u, u), k - 1)

\* the count a symbol map gives a symbol (0 when it has no entry)
Tally(m, c) == IF c \in DOMAIN m THEN m[c] ELSE U64(0)

MostCommon(m) == CHOOSE c \in DOMAIN m : \A d \in DOMAIN m : ~U64Less(m[c], m[d])
LeastCommon(m) == CHOOSE c \in DOMAIN m : \A d \in DOMAIN m : ~U64Less(m[d], m[c])

\* the rule table has a rule for every pair of its symbols
TotalRules == rules = TEST_RULES \/ DOMAIN rules = PairsOf(Symbols)

\* C12: when the pair counts hold a pair without a rule, step() returns a
\* rule-missing error to its caller (it does not abort) and the pair counts
\* are what they were before the call.
C12_StepMissingRule ==
    (pret.op = "step" /\ \E p \in DOMAIN pret.pre.state : p \notin DOMAIN rules) =>
        /\ pret.ret = Err
        /\ ppc # "aborted"
        /\ ins = pret.pre

\* C13: new on a template of length N >= 1 gives pair counts that sum to N-1,
\* and every successful step doubles the sum: (N-1) * 2^k after k steps.
C13_PairSumDoubles ==
    ppc = "live" =>
        /\ pret.op = "new" => PairSum(ins) = U64(Len(template) - 1)
        /\ (pret.op = "step" /\ pret.ret = Ok(UnitVal)) =>
              PairSum(ins) = U64Add(PairSum(pret.pre), PairSum(pret.pre))
        /\ PairSum(ins) = DoubleTimes(U64(Len(template) - 1), ksteps)

C13_Witness ==
    /\ ppc = "live"
    /\ Len(template) = 3
    /\ pret.op = "step"
    /\ ksteps = 3
    /\ PairSum(ins) = U64(16)

\* C14: count_elements()[s] is the sum of the counts of the pairs whose second
\* symbol is s, plus 1 if s is the retained first symbol; hence the symbol
\* counts sum to (sum of pair counts) + 1.
C14_CountElements ==
    pret.op = "count_elements" =>
        /\ \A c \in AllSymbols :
              Tally(pret.ret, c)
                  = U64Add(SumU({p \in DOMAIN ins.state : p[2] = c}, ins.state),
                           IF c = ins.first THEN U64(1) ELSE U64(0))
        /\ SumU(DOMAIN pret.ret, pret.ret) = U64Add(PairSum(ins), U64(1))

\* C15: for a non-empty template and a total rule table, the symbol counts of
\* StatefulPairInserter after k steps equal NaivePairInserter::count_elements
\* of the string after k pair_insert calls.
C15_ModesAgree ==
    (/\ TotalRules
     /\ ppc = "live"
     /\ pret.op = "count_elements"
     /\ nret.op = "count_elements"
     /\ ksteps = nsteps) =>
        pret.ret = nret.ret

\* C16: with the example rules and template NNCB the total symbol counts are
\* 4, 7, 13, 25, 49, 97 after 0..5 steps; after 10 steps B=1749, C=298, H=161,
\* N=865 (most minus least common 1588); after 40 steps most minus least
\* common is 2188189693529.
C16_Example ==
    (rules = TEST_RULES /\ template = TestTemplate /\ pret.op = "count_elements") =>
        LET m == pret.ret
            total == SumU(DOMAIN m, m)
        IN  /\ ksteps = 0 => total = U64(4)
            /\ ksteps = 1 => total = U64(7)
            /\ ksteps = 2 => total = U64(13)
            /\ ksteps = 3 => total = U64(25)
            /\ ksteps = 4 => total = U64(49)
            /\ ksteps = 5 => total = U64(97)
            /\ ksteps = 10 =>
                  /\ m = ("B" :> U64(1749)) @@ ("C" :> U64(298))
                            @@ ("H" :> U64(161)) @@ ("N" :> U64(865))
                  /\ U64Add(m[LeastCommon(m)], U64(1588)) = m[MostCommon(m)]
            /\ ksteps = 40 =>
                  U64Add(m[LeastCommon(m)], <<189693529, 2188, 0>>) = m[MostCommon(m)]

C16_Witness ==
    /\ rules = TEST_RULES
    /\ template = TestTemplate
    /\ pret.op = "count_elements"
    /\ ksteps = 40
    /\ pret.ret[MostCommon(pret.ret)] = <<39569602, 2192, 0>>

\* C17: pair_insert on an input of length L >= 1 whose adjacent pairs all have
\* rules returns a string of length 2L-1 with the input symbols in order at
\* the even (0-based) positions and rule(input[i], input[i+1]) at position
\* 2i+1 (NNCB becomes NCNBCHB); with a pair without a rule it returns an error.
C17_PairInsert ==
    nret.op = "pair_insert" =>
        LET input == nret.pre
            L == Len(input)
            ruled == \A i \in 1 .. (L - 1) : <<input[i], input[i + 1]>> \in DOMAIN rules
        IN  /\ (ruled /\ L >= 1) =>
                  /\ nret.ret # Err
                  /\ Len(nret.ret.val) = 2 * L - 1
                  /\ \A i \in 1 .. L : nret.ret.val[2 * i - 1] = input[i]
                  /\ \A i \in 1 .. (L - 1) :
                        nret.ret.val[2 * i] = rules[<<input[i], input[i + 1]>>]
            /\ ~ruled => nret.ret = Err
            /\ (rules = TEST_RULES /\ input = TestTemplate) =>
                  nret.ret = Ok(<<"N", "C", "N", "B", "C", "H", "B">>)

C17_Witness ==
    /\ nret.op = "pair_insert"
    /\ rules = TEST_RULES
    /\ nret.pre = TestTemplate
    /\ nret.ret = Ok(<<"N", "C", "N", "B", "C", "H", "B">>)

----------------------------------------------------------------------------
(* Properties of SmokeBasin                                                *)

Abs(n) == IF n < 0 THEN -n ELSE n

\* p and q are orthogonal neighbours
Adjacent(p, q) == Abs(p.x - q.x) + Abs(p.y - q.y) = 1

\* p is not 9 and strictly lower than every cell of g next to it
LowCell(g, p) ==
    /\ p.value # 9
    /\ \A q \in CellsOf(g) : Adjacent(p, q) => p.value < q.value

\* the 4-connected region of cells below 9 around the cells of S
RECURSIVE Grow(_, _)
Grow(g, S) ==
    LET T == S \cup {q \in CellsOf(g) : q.value < 9 /\ \E r \in S : Adjacent(r, q)}
    IN  IF T = S THEN S ELSE Grow(g, T)

C19_BasinSize ==
    (bret.op = "get_basin_size" /\ bpc = "live") =>
        IF ~LowCell(basin, bret.point)
        THEN bret.ret = None
        ELSE /\ bret.ret = Some(Cardinality(Grow(basin, {bret.point})))
             /\ \A v \in visited : v.value # 9
             /\ bret.ret.val = Cardinality({<<v.x, v.y>> : v \in visited})

C19_Witness ==
    /\ bret.op = "get_basin_size"
    /\ bpc = "live"
    /\ basin = ExampleHeightmap
    /\ bret.point = Point(2, 2, 5)
    /\ bret.ret = Some(14)

\* every cell is on the list of enqueued points at most once, and every
\* enqueue added a point to the visited set
EnqueuedOnce ==
    /\ \A i, j \in 1 .. Len(pushed) :
          (pushed[i].x = pushed[j].x /\ pushed[i].y = pushed[j].y) => i = j
    /\ Cardinality(visited) = Len(pushed)

\* C20: the breadth-first traversal in get_basin_size terminates: each cell
\* is enqueued at most once (the visited set grows on every enqueue) and the
\* work queue eventually becomes empty, after which the call returns.
C20_Terminates ==
    /\ []EnqueuedOnce
    /\ (bpc = "bfs") ~> (bpc = "live" /\ queue = <<>>)

C20_Witness ==
    /\ bret.op = "get_basin_size"
    /\ bpc = "live"
    /\ queue = <<>>
    /\ Len(pushed) = 9
    /\ bret.ret = Some(9)

\* C21: on the 10x5 example heightmap get_low_points returns exactly the
\* cells (1,0)=1, (9,0)=0, (2,2)=5, (6,4)=5, their basin sizes are 3, 9, 14
\* and 9, and the three largest basin sizes multiply to 1134.
C21_Example ==
    basin = ExampleHeightmap =>
        /\ bret.op = "get_low_points" =>
              bret.ret = Returned(<<Point(1, 0, 1), Point(9, 0, 0),
                                    Point(2, 2, 5), Point(6, 4, 5)>>)
        /\ (bret.op = "get_basin_size" /\ bpc = "live") =>
              /\ bret.point = Point(1, 0, 1) => bret.ret = Some(3)
              /\ bret.point = Point(9, 0, 0) => bret.ret = Some(9)
              /\ bret.point = Point(2, 2, 5) => bret.ret = Some(14)
              /\ bret.point = Point(6, 4, 5) => bret.ret = Some(9)
        /\ bret.op = "part2" =>
              /\ bret.basins = <<14, 9, 9, 3>>
              /\ bret.ret = Returned(1134)

C21_Witness ==
    /\ basin = ExampleHeightmap
    /\ bret.op = "part2"
    /\ Len(bret.low_points) = 4
    /\ bret.ret = Returned(1134)

----------------------------------------------------------------------------
(* Properties of Octopusses                                                *)

CellCount(g) == Len(g.data)

ZeroCells(g) == {i \in 1 .. Len(g.data) : g.data[i] = 0}

StepReturned == oret.op = "step" /\ oret.ret # Running

\* C22: within one step each cell flashes at most once: the flash count
\* step() returns is the number of cells whose energy is 0 when the step
\* ends, and never exceeds the number of cells of the grid.
C22_FlashCount ==
    StepReturned =>
        /\ oret.ret.val = Cardinality(ZeroCells(octo))
        /\ oret.ret.val <= CellCount(octo)

C22_Witness ==
    /\ StepReturned
    /\ cavern = ExampleOctopusses
    /\ osteps = 2
    /\ oret.ret = Returned(35)

\* C23: step terminates on every grid (the rescan loop ends after finitely
\* many passes); when it returns no cell has energy above the threshold 9,
\* and from energies in 0..9 every cell is in 0..9 after every step.
C23_StepTerminates ==
    /\ [](opc = "live" => \A i \in 1 .. Len(octo.data) : octo.data[i] \in 0 .. 9)
    /\ [](StepReturned => ~any_above(octo))
    /\ (opc \in {"scan", "cells"}) ~> (opc = "live")

C23_Witness ==
    /\ StepReturned
    /\ opc = "live"
    /\ CellCount(octo) = 6
    /\ oret.ret = Returned(6)
    /\ osteps = 2

\* C24: on the 10x10 example the flash counts of the first 100 step() calls
\* sum to 1656, and step_until_synchronized_flash on a fresh copy returns
\* 195, the index of the first step whose flash count is the cell count.
C24_Example ==
    cavern = ExampleOctopusses =>
        /\ osteps = Part1Steps => flash_sum = 1656
        /\ (oret.op = "step_until_synchronized_flash" /\ oret.ret # Running) =>
              oret.ret = Returned(195)
        /\ StepReturned =>
              /\ osteps < 195 => oret.ret.val # CellCount(octo)
              /\ osteps = 195 => oret.ret.val = CellCount(octo)

C24_Witness ==
    /\ cavern = ExampleOctopusses
    /\ oret.op = "step_until_synchronized_flash"
    /\ oret.ret = Returned(195)
    /\ osteps = 195

\* the energy of cell (x, y) of g
EnergyAt(g, x, y) == g.data[idx(g, x, y) + 1]

\* (cx, cy) is one of the 8 cells around (x, y)
Around(x, y, cx, cy) ==
    /\ <<cx, cy>> # <<x, y>>
    /\ Abs(cx - x) <= 1
    /\ Abs(cy - y) <= 1

\* C29: a single flash of cell (x, y) sets that cell's energy to 0, adds
\* exactly 1 to each in-bounds 8-neighbour whose energy is above 0, and
\* leaves unchanged every neighbour at 0 and every cell that is no neighbour.
C29_FlashEffect ==
    oret.op = "flash" =>
        LET g == oret.pre
            x == oret.x
            y == oret.y
        IN  /\ octo.num_columns = g.num_columns
            /\ Len(octo.data) = Len(g.data)
            /\ \A cx \in 0 .. (column_count(g) - 1), cy \in 0 .. (row_count(g) - 1) :
                  EnergyAt(octo, cx, cy) =
                      IF <<cx, cy>> = <<x, y>> THEN 0
                      ELSE IF Around(x, y, cx, cy) /\ EnergyAt(g, cx, cy) > 0
                           THEN EnergyAt(g, cx, cy) + 1
                           ELSE EnergyAt(g, cx, cy)

C29_Witness ==
    /\ oret.op = "flash"
    /\ LET g == oret.pre
           cells == (0 .. (column_count(g) - 1)) \X (0 .. (row_count(g) - 1))
       IN  /\ \E c \in cells :
                 /\ Around(oret.x, oret.y, c[1], c[2])
                 /\ c[1] # oret.x /\ c[2] # oret.y
                 /\ EnergyAt(g, c[1], c[2]) > 0
                 /\ EnergyAt(octo, c[1], c[2]) = EnergyAt(g, c[1], c[2]) + 1
           /\ \E c \in cells :
                 /\ Around(oret.x, oret.y, c[1], c[2])
                 /\ EnergyAt(g, c[1], c[2]) = 0
           /\ \E c \in cells :
                 /\ c # <<oret.x, oret.y>>
                 /\ ~Around(oret.x, oret.y, c[1], c[2])

----------------------------------------------------------------------------
(* Properties of Report                                                    *)

\* the report numbers that have bit b at position i (1-based)
NumbersWith(r, i, b) == {k \in 1 .. Len(r.data) : r.data[k][i] = b}

\* C25: gamma_rate sets bit i to 1 iff strictly more report numbers have a 1
\* than a 0 at position i; when both are equally common the bit is 0.
C25_GammaRate ==
    rret.op = "gamma_rate" =>
        /\ Len(rret.ret) = report.size
        /\ \A i \in 1 .. report.size :
              LET ones == Cardinality(NumbersWith(report, i, TRUE))
                  zeroes == Cardinality(NumbersWith(report, i, FALSE))
              IN  /\ rret.ret[i] <=> ones > zeroes
                  /\ ones = zeroes => rret.ret[i] = FALSE

C25_Witness ==
    /\ rret.op = "gamma_rate"
    /\ report.size = 2
    /\ Cardinality(NumbersWith(report, 1, TRUE)) = Cardinality(NumbersWith(report, 1, FALSE))
    /\ rret.ret = <<FALSE, TRUE>>

-----------------------------------------------------------------------------
(* Properties of BingoGame                                                 *)

\* the numbers drawn up to and including the p-th
CalledSoFar(p) == {called[k] : k \in 1 .. p}

BlockRows(ns) == 0 .. ((Len(ns) \div BINGO_BOARD_GRID) - 1)

NumberAt(ns, x, y) == ns[(y * BINGO_BOARD_GRID) + x + 1]

\* a row or a column of the block has all its numbers in S
HasFullLine(ns, S) ==
    \/ \E y \in BlockRows(ns) : \A x \in Side : NumberAt(ns, x, y) \in S
    \/ /\ BlockRows(ns) # {}
       /\ \E x \in Side : \A y \in BlockRows(ns) : NumberAt(ns, x, y) \in S

WinnersVia(via) == SelectSeq(winners, LAMBDA w : w.via = via)

\* the blocks that play_to_end still had to play
LeftForPlayToEnd ==
    {k \in 1 .. Len(blocks) : \A i \in 1 .. Len(winners) :
        winners[i].via = "play" => winners[i].idx + 1 # k}

WinsOnce ==
    /\ \A i, j \in 1 .. Len(winners) : i # j => winners[i].idx # winners[j].idx
    /\ \A i \in 1 .. Len(winners) : boards[winners[i].idx + 1] = None

WinsOnlyOnFullLine ==
    \A i \in 1 .. Len(winners) :
        /\ HasFullLine(blocks[winners[i].idx + 1], CalledSoFar(winners[i].at))
        /\ winners[i].winning_number = called[winners[i].at]

LastWinnerReturned ==
    (kret.op = "play_to_end" /\ kret.ret.tag = "Returned") =>
        LET mine == WinnersVia("play_to_end")
            ret == kret.ret.val
        IN  IF \A k \in LeftForPlayToEnd : ~HasFullLine(blocks[k], CalledSoFar(Len(called)))
            THEN ret = None /\ mine = <<>>
            ELSE /\ mine # <<>>
                 /\ ret.tag = "Some"
                 /\ ret.val.winning_number = mine[Len(mine)].winning_number
                 /\ ret.val.winning_board = mine[Len(mine)].winning_board
                 /\ ~HasFullLine(blocks[mine[Len(mine)].idx + 1],
                                 CalledSoFar(mine[Len(mine)].at - 1))
                 /\ \A k \in LeftForPlayToEnd :
                        HasFullLine(blocks[k], CalledSoFar(Len(called)))
                            => HasFullLine(blocks[k], CalledSoFar(mine[Len(mine)].at))

PlayToEndRules == WinsOnce /\ WinsOnlyOnFullLine /\ LastWinnerReturned

\* C26: in play_to_end each board is returned as a winner at most once and is
\* taken out of the game, a board wins only when one of its rows or columns is
\* fully crossed by the numbers called so far, and the result is the last
\* board to win with the number that completed it (None if no board wins)
C26_PlayToEnd == kpc \in {"live", "loop"} => PlayToEndRules

\* the same rules for games in which every board is a 5x5 grid
PlayToEndRulesOnFullBoards ==
    (/\ kpc \in {"live", "loop"}
     /\ \A k \in 1 .. Len(blocks) : Len(blocks[k]) = BINGO_BOARD_GRID * BINGO_BOARD_GRID)
        => PlayToEndRules

\* two 5x5 boards won in turn and play_to_end returned the second
TwoWinnersReturned ==
    /\ kret.op = "play_to_end"
    /\ kret.ret.tag = "Returned"
    /\ Len(WinnersVia("play_to_end")) = 2
    /\ \A k \in 1 .. Len(blocks) : Len(blocks[k]) = BINGO_BOARD_GRID * BINGO_BOARD_GRID
    /\ winners[1].at < winners[2].at

-----------------------------------------------------------------------------
(* Properties of parse_line                                                *)

IsOpener(c) == c \in {"(", "[", "{", "<"}
IsCloser(c) == c \in {")", "]", "}", ">"}
CloserOf(c) == CASE c = "(" -> ")" [] c = "[" -> "]" [] c = "{" -> "}" [] c = "<" -> ">"
TokenOf(c) ==
    CASE c = "(" -> "Round" [] c = "[" -> "Square" [] c = "{" -> "Curly" [] c = "<" -> "Pointy"

\* a balanced bracket string: empty, or an opener, a balanced string, the
\* opener's closer and a balanced string
RECURSIVE Balanced(_)
Balanced(s) ==
    \/ s = <<>>
    \/ /\ IsOpener(s[1])
       /\ \E k \in 2 .. Len(s) :
            /\ s[k] = CloserOf(s[1])
            /\ Balanced(SubSeq(s, 2, k - 1))
            /\ Balanced(SubSeq(s, k + 1, Len(s)))

\* the position of the opener that a closer at position k closes: the nearest
\* opener before k with a balanced string in between (0 if there is none)
MatchOf(s, k) ==
    LET cands == {j \in 1 .. (k - 1) : IsOpener(s[j]) /\ Balanced(SubSeq(s, j + 1, k - 1))}
    IN  IF cands = {} THEN 0 ELSE CHOOSE j \in cands : \A h \in cands : h <= j

\* the closer at position k does not close the most recent unclosed opener
BadCloser(s, k) ==
    /\ IsCloser(s[k])
    /\ \/ MatchOf(s, k) = 0
       \/ s[k] # CloserOf(s[MatchOf(s, k)])

BadClosers(s) == {k \in 1 .. Len(s) : BadCloser(s, k)}

FirstBadCloser(s) == CHOOSE k \in BadClosers(s) : \A h \in BadClosers(s) : k <= h

\* the openers of s that no later closer closes, as tokens, left to right
StillOpen(s) ==
    LET unclosed == {j \in 1 .. Len(s) :
                        /\ IsOpener(s[j])
                        /\ \A k \in (j + 1) .. Len(s) : ~(IsCloser(s[k]) /\ MatchOf(s, k) = j)}
        f == [j \in 1 .. Len(s) |-> j]
        positions == SelectSeq(f, LAMBDA j : j \in unclosed)
    IN  [i \in 1 .. Len(positions) |-> TokenOf(s[positions[i]])]

ParsedAsClaimed ==
    /\ (lret.ret.tag = "Complete") <=> Balanced(line)
    /\ (lret.ret.tag = "Corrupted") <=> (BadClosers(line) # {})
    /\ lret.ret.tag = "Corrupted" => lret.ret.char = line[FirstBadCloser(line)]
    /\ (~Balanced(line) /\ BadClosers(line) = {}) =>
            lret.ret = Incomplete(line, StillOpen(line))

StartsWithOpener == line # <<>> /\ IsOpener(line[1])

\* C27: for a line that starts with an opening bracket parse_line returns
\* Complete exactly when the line is a balanced bracket string, Corrupted with
\* the offending character exactly when some closing character does not close
\* the most recent unclosed opener, and Incomplete with the stack of the
\* still-open brackets otherwise
C27_ParseLine == (lpc = "parsed" /\ StartsWithOpener) => ParsedAsClaimed

\* a closer arrives while no opener is unclosed
CloserOnEmptyStack ==
    \E k \in 1 .. Len(line) :
        /\ IsCloser(line[k])
        /\ MatchOf(line, k) = 0
        /\ \A h \in 1 .. (k - 1) : ~BadCloser(line, h)

\* the same for the lines in which every closer meets an unclosed opener
ParsedAsClaimedOnOpenStack ==
    (lpc = "parsed" /\ StartsWithOpener /\ ~CloserOnEmptyStack) => ParsedAsClaimed
====
